---- MODULE Spec2Model ----
(***************************************************************************)
(* Verification model of the blog_os bootloader decoders:                  *)
(*   - the EDD decoder (DriveParameters, DevicePathInformation,            *)
(*     FixedDiskParameterTable), src/bootloader/src/edd/mod.rs             *)
(*   - the ELF decoder (File, ProgramHeaderEntries, SectionHeaderEntries), *)
(*     src/common/src/elf/mod.rs and src/bootloader/src/elf/*.rs           *)
(*   - the string table (StringTable::get_string),                         *)
(*     src/bootloader/src/elf/section.rs                                   *)
(*   - File::get_segment and File::get_section_by_index, the entry         *)
(*     records and their accessors, src/common/src/elf/mod.rs              *)
(*   - the flag sets and their Display, src/bootloader/src/macros.rs and   *)
(*     src/common/src/macros.rs                                            *)
(*   - the global error chain, src/common/src/error.rs                     *)
(*   - the ATA PIO sector read, src/common/src/ata.rs                      *)
(* Byte records are sequences of numbers 0..255; a decode result is a      *)
(* record tagged "Ok", "Err" or "Panic".                                   *)
(***************************************************************************)
EXTENDS Integers, Sequences, FiniteSets, TLC

VARIABLES
    target,     \* EDD: the decoder that is called
    bytes,      \* EDD: the byte slice handed to the decoder
    mem,        \* EDD: the 16 bytes found at the resolved far pointer
    res,        \* EDD: result of the latest decode (NoResult before)
    first,      \* EDD: result of the decode that preceded a byte change
    changed,    \* EDD: offset of the changed byte, -1 when unchanged
    epc,        \* EDD: "input" | "decoded" | "changed" | "redecoded"
    build,      \* ELF: how the crate was compiled (overflow checks, usize)
    buf,        \* ELF: the input buffer (length, header fields, tables)
    file,       \* ELF: result of File::try_from (NoResult before)
    iter,       \* ELF: the live entry iterator (NoIter when there is none)
    yielded,    \* ELF: the items the iterator has returned so far
    fpc,        \* ELF: "input", "rejected", "aborted", "file", "iterating", ...
    string_table, \* StringTable: the bytes the table borrows
    str_index,  \* StringTable: the index handed to get_string
    string,     \* StringTable: what get_string returned (NoResult before)
    spc,        \* StringTable: "input" | "returned"
    program_header, \* File: the entry handed to get_segment
    segment,    \* File: what get_segment returned (NoResult before)
    section_index, \* File: the index handed to get_section_by_index
    section,    \* File: what get_section_by_index returned
    entry_kind, \* entry: "ProgramHeader" | "SectionHeader"
    entry_class, \* entry: the class the bytes are decoded in (1 or 2)
    entry_bytes, \* entry: the byte slice handed to try_from_bytes
    header_entry, \* entry: result of try_from_bytes (NoResult before)
    accessed,   \* entry: what the accessors of the entry returned
    flag_type,  \* flags: the flag set that is rendered
    flag_bits,  \* flags: the value the set wraps
    rendered,   \* flags: what Display wrote (NoResult before)
    error_chain, \* ErrorChain: errors, length, theres_more
    pushed,     \* ErrorChain: the errors pushed since the last clear
    ata_pc,     \* ATA: position in read_sectors_lba28_pio
    status,     \* ATA: the status register of the device
    ticks,      \* ATA: ticks left on the running timer
    readiness,  \* ATA: what wait_for_readiness returned (NoResult before)
    port_writes, \* ATA: the registers written so far, in order
    sectors_left, \* ATA: sectors still to transfer
    outcome     \* ATA: what read_sectors_lba28_pio returned

eddVars == <<target, bytes, mem, res, first, changed, epc>>
elfVars == <<build, buf, file, iter, yielded, fpc>>
strVars == <<string_table, str_index, string, spc>>
accessVars == <<program_header, segment, section_index, section>>
entryVars == <<entry_kind, entry_class, entry_bytes, header_entry, accessed>>
flagVars == <<flag_type, flag_bits, rendered>>
chainVars == <<error_chain, pushed>>
ataVars == <<ata_pc, status, ticks, readiness, port_writes, sectors_left,
             outcome>>
vars == <<target, bytes, mem, res, first, changed, epc,
          build, buf, file, iter, yielded, fpc,
          string_table, str_index, string, spc,
          program_header, segment, section_index, section,
          entry_kind, entry_class, entry_bytes, header_entry, accessed,
          flag_type, flag_bits, rendered,
          error_chain, pushed,
          ata_pc, status, ticks, readiness, port_writes, sectors_left,
          outcome>>

(***************************************************************************)
(* Bytes and little-endian fields                                          *)
(***************************************************************************)
Byte == 0..255

\* s[i] with the 0-based offsets of the source
At(s, i) == s[i + 1]

\* s[from..to) as a sequence
Slice(s, from, to) == [k \in 1..(to - from) |-> s[from + k]]

\* U16<LE>::get
LE16(s, i) == At(s, i) + 256 * At(s, i + 1)

\* true when every byte of s[from..to) is 0: .iter().all(|&b| b == 0)
AllZero(s, from, to) == \A k \in from..(to - 1) : At(s, k) = 0

\* true when s starts with the bytes of prefix: <[u8]>::starts_with
StartsWith(s, prefix) ==
    /\ Len(prefix) <= Len(s)
    /\ \A k \in 1..Len(prefix) : s[k] = prefix[k]

RECURSIVE WrappingSum(_, _)
\* .iter().fold(0, |checksum, &byte| checksum.wrapping_add(byte)) over s[0..n)
WrappingSum(s, n) ==
    IF n = 0 THEN 0 ELSE (WrappingSum(s, n - 1) + s[n]) % 256

\* s with the byte at offset i replaced by v
WithByte(s, i, v) == [s EXCEPT ![i + 1] = v]

(***************************************************************************)
(* Results                                                                 *)
(***************************************************************************)
Ok(v) == [tag |-> "Ok", val |-> v]

\* Error::InternalError(InternalError::new(facility, kind, Context::Parsing))
Err(facility, kind, field, reason, value) ==
    [tag |-> "Err", facility |-> facility, kind |-> kind, field |-> field,
     reason |-> reason, value |-> value]

CantReadField(facility, field, reason, value) ==
    Err(facility, "CantReadField", field, reason, value)

CantFit(facility, what) == Err(facility, "CantFit", what, "none", 0)

\* try_read_error on ConvertError::Size: the slice is shorter than the record
SizeError(facility, size) ==
    Err(facility, "Generic", "none", "InvalidSizeForType", size)

Panic(what) == [tag |-> "Panic", what |-> what]

\* the value of a result variable before anything was computed
NoResult == [tag |-> "None"]

IsOk(r) == r.tag = "Ok"
IsErr(r) == r.tag = "Err"
IsPanic(r) == r.tag = "Panic"

IsFieldError(r, field) ==
    IsErr(r) /\ r.kind = "CantReadField" /\ r.field = field

IsChecksumError(r) == IsFieldError(r, "checksum") /\ r.reason = "InvalidValue"

RECURSIVE BitAnd(_, _)
\* a & b on unsigned numbers
BitAnd(a, b) ==
    IF a = 0 \/ b = 0 THEN 0
    ELSE (a % 2) * (b % 2) + 2 * BitAnd(a \div 2, b \div 2)

\* U32<LE>::get as two 16-bit limbs <<low, high>>
LE32(s, i) == <<LE16(s, i), LE16(s, i + 2)>>

\* U64<LE>::get as four 16-bit limbs, least significant first
LE64(s, i) == <<LE16(s, i), LE16(s, i + 2), LE16(s, i + 4), LE16(s, i + 6)>>

U32_MAX == <<65535, 65535>>
U32_ZERO == <<0, 0>>

(***************************************************************************)
(* DevicePathInformation, src/bootloader/src/edd/mod.rs:35-342             *)
(***************************************************************************)
\* size_of::<DevicePathInformationRaw>()
DPI_SIZE == 36

\* the signature word
BEDD == 48861

TAG_PCI == <<80, 67, 73>>
TAG_ISA == <<73, 83, 65>>
TAG_ATA == <<65, 84, 65>>
TAG_ATAPI == <<65, 84, 65, 80, 73>>
TAG_SCSI == <<83, 67, 83, 73>>
TAG_USB == <<85, 83, 66>>
TAG_1394 == <<49, 51, 57, 52>>
TAG_FIBRE == <<70, 73, 66, 82, 69>>

\* the packed record read by try_read_from_prefix
DevicePathInformationRaw(s) ==
    [bedd |-> LE16(s, 0),
     length |-> At(s, 2),
     reserved_1 |-> At(s, 3),
     reserved_2 |-> LE16(s, 4),
     host_bus_type |-> Slice(s, 6, 10),
     interface_type |-> Slice(s, 10, 18),
     interface_path |-> Slice(s, 18, 26),
     device_path |-> Slice(s, 26, 34),
     reserved_3 |-> At(s, 34),
     checksum |-> At(s, 35)]

DpiReserved(facility, field) ==
    CantReadField(facility, field, "InvalidValuesForReservedBits", 0)

\* a host_bus match that keeps only the low byte of the ISA base address
HostBusOf_IsaLowByteOnly(value) ==
    LET interface_path == value.interface_path IN
    IF StartsWith(value.host_bus_type, TAG_PCI) THEN
        Ok([variant |-> "Pci", bus |-> At(interface_path, 0),
            slot |-> At(interface_path, 1), function |-> At(interface_path, 2)])
    ELSE Ok([variant |-> "Isa", base_address |-> At(interface_path, 0)])

\* the host_bus match of TryFrom<&DevicePathInformationRaw>
HostBusOf(value) ==
    LET interface_path == value.interface_path IN
    IF StartsWith(value.host_bus_type, TAG_PCI) THEN
        IF ~AllZero(interface_path, 3, 8)
        THEN DpiReserved("DevicePathInformation", "PCI interface path reserved bytes")
        ELSE Ok([variant |-> "Pci", bus |-> At(interface_path, 0),
                 slot |-> At(interface_path, 1), function |-> At(interface_path, 2)])
    ELSE IF StartsWith(value.host_bus_type, TAG_ISA) THEN
        IF ~AllZero(interface_path, 2, 8)
        THEN DpiReserved("DevicePathInformation", "ISA interface path reserved bytes")
        ELSE Ok([variant |-> "Isa", base_address |-> LE16(interface_path, 0)])
    ELSE CantReadField("DevicePathInformation", "host bus type", "InvalidValue",
                       value.host_bus_type)

\* the interface match of TryFrom<&DevicePathInformationRaw>; the arms are
\* tried in the order they are written
InterfaceOf(value) ==
    LET device_path == value.device_path IN
    IF StartsWith(value.interface_type, TAG_ATA) THEN
        IF ~AllZero(device_path, 1, 8)
        THEN DpiReserved("DevicePathInformation", "ATA device path reserved bytes")
        ELSE Ok([variant |-> "Ata", is_slave |-> (At(device_path, 0) = 1)])
    ELSE IF StartsWith(value.interface_type, TAG_ATAPI) THEN
        IF ~AllZero(device_path, 2, 8)
        THEN DpiReserved("DevicePathInformation", "ATAPI device path reserved bytes")
        ELSE Ok([variant |-> "Atapi", is_slave |-> (At(device_path, 0) = 1),
                 logical_unit_number |-> At(device_path, 1)])
    ELSE IF StartsWith(value.interface_type, TAG_SCSI) THEN
        IF ~AllZero(device_path, 1, 8)
        THEN DpiReserved("DevicePathInformation", "SCSI device path reserved bytes")
        ELSE Ok([variant |-> "Scsi", logical_unit_number |-> At(device_path, 0)])
    ELSE IF StartsWith(value.interface_type, TAG_USB) THEN
        IF ~AllZero(device_path, 1, 8)
        THEN DpiReserved("DevicePathInformation", "USB device path reserved bytes")
        ELSE Ok([variant |-> "Usb", tbd |-> At(device_path, 0)])
    ELSE IF StartsWith(value.interface_type, TAG_1394) THEN
        Ok([variant |-> "_1394", guid |-> device_path])
    ELSE IF StartsWith(value.interface_type, TAG_FIBRE) THEN
        Ok([variant |-> "Fibre", wwn |-> At(device_path, 0)])
    ELSE CantReadField("DevicePathInformation", "interface type", "InvalidValue",
                       value.interface_type)

\* impl TryFrom<&DevicePathInformationRaw> for DevicePathInformation
DevicePathInformationFromRaw(value) ==
    LET host_bus == HostBusOf(value) IN
    IF ~IsOk(host_bus) THEN host_bus
    ELSE LET interface == InterfaceOf(value) IN
         IF ~IsOk(interface) THEN interface
         ELSE Ok([host_bus |-> host_bus.val, interface |-> interface.val])

DpiReservedNonzero_Reserved3Ignored(raw) ==
    raw.reserved_1 # 0 \/ raw.reserved_2 # 0

\* the reserved check of DevicePathInformation::try_from
DpiReservedNonzero(raw) ==
    raw.reserved_1 # 0 \/ raw.reserved_2 # 0 \/ raw.reserved_3 # 0

DpiChecksum_LastPathByteLeftOut(value) == WrappingSum(value, DPI_SIZE - 3)

\* the fold over value[..size_of::<DevicePathInformationRaw>() - 1]
DpiChecksum(value) == WrappingSum(value, DPI_SIZE - 1)

\* impl TryFrom<&[u8]> for DevicePathInformation
DevicePathInformationTryFrom(value) ==
    IF Len(value) < DPI_SIZE THEN SizeError("DevicePathInformation", Len(value))
    ELSE
    LET raw == DevicePathInformationRaw(value) IN
    IF raw.bedd # BEDD
    THEN CantReadField("DevicePathInformation", "bedd", "InvalidValue", raw.bedd)
    ELSE IF DpiReservedNonzero(raw)
    THEN DpiReserved("DevicePathInformation", "bedd")
    ELSE IF raw.length # DPI_SIZE
    THEN CantReadField("DevicePathInformation", "length", "InvalidValue", raw.length)
    ELSE IF (DpiChecksum(value) + raw.checksum) % 256 # 0
    THEN CantReadField("DevicePathInformation", "checksum", "InvalidValue",
                       raw.checksum)
    ELSE DevicePathInformationFromRaw(raw)

(***************************************************************************)
(* FixedDiskParameterTable, src/bootloader/src/edd/mod.rs:583-814          *)
(***************************************************************************)
\* size_of::<FixedDiskParameterTableRaw>()
FDPT_SIZE == 16

\* HWSpecificOptionFlagType
HW_CHSTranslation == 8
HW_Atapi == 64
HW_AtapiUsesInterruptDRQ == 256
HW_TranslationTypeFirstBit == 512
HW_TranslationTypeSecondBit == 1024

is_set_WhenAnyFlagSet(flags, flag) == flags # 0

is_set_GeometryFlagNeverSet(flags, flag) ==
    flag # 2 /\ BitAnd(flags, flag) # 0

\* the flag sets' is_set: self.0 & (flag as repr) != 0
is_set(flags, flag) == BitAnd(flags, flag) # 0

FixedDiskParameterTableRaw(s) ==
    [io_port_base |-> LE16(s, 0),
     control_port_base |-> LE16(s, 2),
     head_prefix |-> At(s, 4),
     internal |-> At(s, 5),
     irq |-> At(s, 6),
     sector_count |-> At(s, 7),
     dma_channel_type |-> At(s, 8),
     pio_type |-> At(s, 9),
     hardware_specific_option_flags |-> LE16(s, 10),
     unused |-> LE16(s, 12),
     extension_revision |-> At(s, 14),
     checksum |-> At(s, 15)]

FdptInvalid(field, v) ==
    CantReadField("FixedDiskParameterTable", field, "InvalidValue", v)

\* impl TryFrom<&FixedDiskParameterTableRaw> for FixedDiskParameterTable
FixedDiskParameterTableFromRaw(value) ==
    LET hw_flags == value.hardware_specific_option_flags IN
    IF value.extension_revision # 17
    THEN FdptInvalid("extension_revision", value.extension_revision)
    ELSE IF BitAnd(value.head_prefix, 143) # 128
    THEN FdptInvalid("head_prefix", value.head_prefix)
    ELSE IF BitAnd(value.irq, 240) # 0
    THEN FdptInvalid("irq", value.irq)
    ELSE IF BitAnd(value.pio_type, 240) # 0
    THEN FdptInvalid("pio_type", value.pio_type)
    ELSE IF is_set(hw_flags, HW_Atapi) /\ ~is_set(hw_flags, HW_AtapiUsesInterruptDRQ)
    THEN FdptInvalid("hardware_specific_option_flags", hw_flags)
    ELSE IF /\ ~is_set(hw_flags, HW_CHSTranslation)
            /\ \/ is_set(hw_flags, HW_TranslationTypeFirstBit)
               \/ is_set(hw_flags, HW_TranslationTypeSecondBit)
    THEN FdptInvalid("hardware_specific_option_flags", hw_flags)
    ELSE Ok([io_port_base |-> value.io_port_base,
             control_port_base |-> value.control_port_base,
             head_prefix |-> value.head_prefix,
             irq |-> value.irq,
             sector_count |-> value.sector_count,
             dma_channel |-> value.dma_channel_type % 16,
             dma_type |-> value.dma_channel_type \div 16,
             pio_type |-> value.pio_type,
             hardware_specific_option_flags |-> hw_flags,
             extension_revision |-> value.extension_revision,
             checksum |-> value.checksum])

FdptChecksum_FirstByteLeftOut(value) ==
    (WrappingSum(value, FDPT_SIZE - 1) + 256 - At(value, 0)) % 256

\* the fold over value[..size_of::<FixedDiskParameterTableRaw>() - 1]
FdptChecksum(value) == WrappingSum(value, FDPT_SIZE - 1)

\* impl TryFrom<&[u8]> for FixedDiskParameterTable
FixedDiskParameterTableTryFrom(value) ==
    IF Len(value) < FDPT_SIZE THEN SizeError("FixedDiskParameterTable", Len(value))
    ELSE
    LET raw == FixedDiskParameterTableRaw(value) IN
    IF (FdptChecksum(value) + raw.checksum) % 256 # 0
    THEN FdptInvalid("checksum", raw.checksum)
    ELSE FixedDiskParameterTableFromRaw(raw)

(***************************************************************************)
(* DriveParameters, src/bootloader/src/edd/mod.rs:22-33, 344-581           *)
(***************************************************************************)
\* size_of::<DriveParametersRaw>()
DP_SIZE == 30

\* InfoFlagType
INFO_SuppliedGeometryValid == 2
INFO_Removable == 4
INFO_SupportsLineChange == 16
INFO_Lockable == 32
INFO_NoMediaPresent == 64

DriveParametersRaw(s) ==
    [buffer_size |-> LE16(s, 0),
     information_flags |-> LE16(s, 2),
     cylinders |-> LE32(s, 4),
     heads |-> LE32(s, 8),
     sectors_per_track |-> LE32(s, 12),
     sectors |-> LE64(s, 16),
     bytes_per_sector |-> LE16(s, 24),
     configuration_parameters |-> LE32(s, 26)]

DpInvalid(field, v) == CantReadField("DriveParameters", field, "InvalidValue", v)

\* impl TryFrom<&DriveParametersRaw> for DriveParameters
DriveParametersFromRaw(value) ==
    LET information_flags == value.information_flags IN
    IF value.buffer_size # 26 /\ value.buffer_size # 30
    THEN DpInvalid("buffer size", value.buffer_size)
    ELSE IF is_set(information_flags, INFO_SuppliedGeometryValid)
            /\ value.cylinders = U32_ZERO
    THEN DpInvalid("cylinders", value.cylinders)
    ELSE IF is_set(information_flags, INFO_SuppliedGeometryValid)
            /\ value.heads = U32_ZERO
    THEN DpInvalid("heads", value.heads)
    ELSE IF is_set(information_flags, INFO_SuppliedGeometryValid)
            /\ value.sectors_per_track = U32_ZERO
    THEN DpInvalid("sectors_per_track", value.sectors_per_track)
    ELSE IF value.bytes_per_sector = 0
    THEN DpInvalid("bytes_per_sector", value.bytes_per_sector)
    ELSE IF is_set(information_flags, INFO_Removable)
            /\ ~is_set(information_flags, INFO_SupportsLineChange)
    THEN DpInvalid("information_flags", information_flags)
    ELSE IF is_set(information_flags, INFO_Removable)
            /\ ~is_set(information_flags, INFO_Lockable)
    THEN DpInvalid("information_flags", information_flags)
    ELSE IF is_set(information_flags, INFO_NoMediaPresent)
            /\ ~is_set(information_flags, INFO_Removable)
    THEN DpInvalid("information_flags", information_flags)
    ELSE Ok([buffer_size |-> value.buffer_size,
             information_flags |-> information_flags,
             cylinders |-> value.cylinders,
             heads |-> value.heads,
             sectors_per_track |-> value.sectors_per_track,
             sectors |-> value.sectors,
             bytes_per_sector |-> value.bytes_per_sector,
             fixed_disk_parameter_table |-> NoResult,
             device_path_information |-> NoResult])

\* the linear address of a real-mode seg:offset pointer, <<offset, segment>>
LinearAddress(fdbt_address) == fdbt_address[2] * 16 + fdbt_address[1]

\* DriveParameters::resolve_fdbt; memory holds the FDPT_SIZE bytes found at
\* the linear address
resolve_fdbt(self, fdbt_address, memory) ==
    IF fdbt_address = U32_MAX THEN Ok(self)
    ELSE IF self.buffer_size # 30
    THEN CantFit("DriveParameters", "fixed disk parameter table")
    ELSE LET table == FixedDiskParameterTableTryFrom(memory) IN
         IF ~IsOk(table) THEN table
         ELSE Ok([self EXCEPT !.fixed_disk_parameter_table = table])

\* impl TryFrom<&[u8]> for DriveParameters
DriveParametersTryFrom(s, memory) ==
    IF Len(s) < DP_SIZE THEN SizeError("DriveParameters", Len(s))
    ELSE
    LET raw == DriveParametersRaw(s)
        result == DriveParametersFromRaw(raw)
    IN
    IF ~IsOk(result) THEN result
    ELSE
    LET resolved == IF raw.configuration_parameters # U32_MAX
                    THEN resolve_fdbt(result.val, raw.configuration_parameters, memory)
                    ELSE result
    IN
    IF ~IsOk(resolved) THEN resolved
    ELSE IF Len(s) <= 31 THEN Panic("index out of bounds")
    ELSE IF LE16(s, 30) = BEDD
    THEN LET dpi == DevicePathInformationTryFrom(Slice(s, 30, Len(s))) IN
         IF ~IsOk(dpi) THEN dpi
         ELSE Ok([resolved.val EXCEPT !.device_path_information = dpi])
    ELSE resolved

(***************************************************************************)
(* EDD inputs: the fixtures of the unit tests and records built like them  *)
(***************************************************************************)
QEMU_DRIVE_PARAMETERS_BYTES ==
    <<30, 0, 2, 0, 2, 0, 0, 0, 16, 0, 0, 0, 63, 0, 0, 0, 145,
      0, 0, 0, 0, 0, 0, 0, 0, 2, 255, 255, 255, 255, 221, 190, 36, 0,
      0, 0, 80, 67, 73, 32, 65, 84, 65, 32, 32, 32, 32, 32, 0, 1,
      1, 0, 0, 0, 0, 0, 0, 0, 0, 0, 0, 0, 0, 0, 0, 205>>

BOCHS_DRIVE_PARAMETERS_BYTES ==
    <<30, 0, 2, 0, 1, 0, 0, 0, 1, 0, 0, 0, 18, 0, 0, 0, 145,
      0, 0, 0, 0, 0, 0, 0, 0, 2, 255, 255, 255, 255, 221, 190, 36, 0,
      0, 0, 73, 83, 65, 32, 65, 84, 65, 32, 32, 32, 32, 32, 240,
      1, 0, 0, 0, 0, 0, 0, 0, 0, 0, 0, 0, 0, 0, 0, 0, 221>>

QEMU_FDPT_BYTES ==
    <<240, 1, 246, 3, 224, 203, 14, 1, 0, 0, 16, 0, 0, 0, 17, 59>>

BOCHS_FDPT_BYTES ==
    <<240, 1, 246, 3, 224, 203, 14, 1, 0, 0, 144, 0, 0, 0, 17, 187>>

\* s[0..n) with its last byte set so that the wrapping sum of the n bytes is 0
FixChecksum(s, n) ==
    WithByte(s, n - 1, (256 - WrappingSum(s, n - 1)) % 256)

\* tag padded with spaces to n bytes
Pad(tag, n) == [k \in 1..n |-> IF k <= Len(tag) THEN tag[k] ELSE 32]

HostTags == {TAG_PCI, TAG_ISA}
InterfaceTags == {TAG_ATA, TAG_ATAPI, TAG_SCSI, TAG_USB, TAG_1394, TAG_FIBRE}

\* the interface path the fixtures give each host bus
HostPath(host) ==
    IF host = TAG_PCI THEN <<0, 1, 1, 0, 0, 0, 0, 0>>
    ELSE <<240, 1, 0, 0, 0, 0, 0, 0>>

\* device paths: a slave device, without and with a logical unit number
DevicePaths == {<<1, 0, 0, 0, 0, 0, 0, 0>>, <<1, 2, 0, 0, 0, 0, 0, 0>>}

\* a well-formed 36-byte device path record with its checksum
DpiRecord(host, interface, device_path) ==
    FixChecksum(<<221, 190, 36, 0, 0, 0>> \o Pad(host, 4) \o Pad(interface, 8)
                \o HostPath(host) \o device_path \o <<0, 0>>, DPI_SIZE)

DpiBases ==
    {DpiRecord(h, t, d) : h \in HostTags, t \in InterfaceTags, d \in DevicePaths}

FdptBases == {QEMU_FDPT_BYTES, BOCHS_FDPT_BYTES}

\* amounts added to one byte of a base record before its checksum is set
PatchDeltas == {1, 16}

\* amounts added to one byte of a decoded record, checksum left alone
ChangeDeltas == {1, 128}

\* base with d added to the byte at offset i and the checksum re-derived
Patched(base, i, d, n) ==
    FixChecksum(WithByte(base, i, (At(base, i) + d) % 256), n)

DpiInputs ==
    DpiBases \cup {Patched(b, i, d, DPI_SIZE) :
                      b \in DpiBases, i \in 0..(DPI_SIZE - 2), d \in PatchDeltas}

\* values of head_prefix: every upper nibble with bit 7 set, one with bit 7
\* clear and one with a low bit set
HeadPrefixInputs == {128, 144, 160, 176, 192, 208, 224, 240, 96, 161}

FdptInputs ==
    FdptBases
        \cup {Patched(b, i, d, FDPT_SIZE) :
                b \in FdptBases, i \in 0..(FDPT_SIZE - 2), d \in PatchDeltas}
        \cup {FixChecksum(WithByte(b, 4, h), FDPT_SIZE) :
                b \in FdptBases, h \in HeadPrefixInputs}

\* slice lengths handed to DriveParameters::try_from
DpLengths == {0, 29, 30, 31, 32, 65, 66}

\* values of the buffer_size byte and of the four pointer bytes
DpBufferSizes == {26, 30, 16}
DpPointers == {<<255, 255, 255, 255>>, <<0, 5, 0, 0>>}

DpBuffer(base, size, ptr) ==
    [k \in 1..Len(base) |->
        IF k = 1 THEN size
        ELSE IF k \in 27..30 THEN ptr[k - 26]
        ELSE base[k]]

\* values of information_flags: the fixtures' SuppliedGeometryValid, none,
\* Removable alone, with SupportsLineChange, with Lockable as well,
\* NoMediaPresent alone, and NoMediaPresent on a removable drive
DpInfoFlags == {2, 0, 4, 20, 52, 64, 116}

\* the geometry field that is zeroed, if any
DpZeroed == {"none", "cylinders", "heads", "sectors_per_track"}

\* low byte of bytes_per_sector's high half: 512 or 0 bytes per sector
DpSectorSizes == {2, 0}

\* base with its information_flags, one geometry field and bytes_per_sector set
DpFields(base, flags, zeroed, sector_size) ==
    [k \in 1..Len(base) |->
        IF k = 3 THEN flags
        ELSE IF k \in 5..8 /\ zeroed = "cylinders" THEN 0
        ELSE IF k \in 9..12 /\ zeroed = "heads" THEN 0
        ELSE IF k \in 13..16 /\ zeroed = "sectors_per_track" THEN 0
        ELSE IF k = 26 THEN sector_size
        ELSE base[k]]

DpInputs ==
    {Slice(DpBuffer(DpFields(b, f, g, c), z, p), 0, n) :
        b \in {QEMU_DRIVE_PARAMETERS_BYTES, BOCHS_DRIVE_PARAMETERS_BYTES},
        f \in DpInfoFlags, g \in DpZeroed, c \in DpSectorSizes,
        z \in DpBufferSizes, p \in DpPointers, n \in DpLengths}

\* what the far pointer may point at
MemoryInputs == {QEMU_FDPT_BYTES, WithByte(QEMU_FDPT_BYTES, 14, 16)}

(***************************************************************************)
(* StringTable, src/bootloader/src/elf/section.rs:415-427                  *)
(***************************************************************************)
\* Option::None and Option::Some
None == [tag |-> "NoneOption"]
Some(v) == [tag |-> "Some", val |-> v]

position_LastMatch(s, c) ==
    IF \A k \in 1..Len(s) : s[k] # c THEN -1
    ELSE (CHOOSE k \in 1..Len(s) : s[k] = c /\ \A j \in (k + 1)..Len(s) : s[j] # c) - 1

\* iter().position(|&b| b == c): the offset of the first c in s, -1 for None
position(s, c) ==
    IF \A k \in 1..Len(s) : s[k] # c THEN -1
    ELSE (CHOOSE k \in 1..Len(s) : s[k] = c /\ \A j \in 1..(k - 1) : s[j] # c) - 1

\* b is a UTF-8 continuation byte
IsContinuation(b) == b \in 128..191

\* the length of the well-formed UTF-8 sequence that starts at offset i of
\* s, 0 when there is none
Utf8SequenceLength(s, i) ==
    LET b == At(s, i)
        has(n) == i + n <= Len(s)
        cont(k) == IsContinuation(At(s, i + k))
    IN
    IF b < 128 THEN 1
    ELSE IF b \in 194..223 THEN (IF has(2) /\ cont(1) THEN 2 ELSE 0)
    ELSE IF b \in 224..239 THEN
        (IF /\ has(3)
            /\ cont(1)
            /\ cont(2)
            /\ b = 224 => At(s, i + 1) >= 160
            /\ b = 237 => At(s, i + 1) <= 159
         THEN 3 ELSE 0)
    ELSE IF b \in 240..244 THEN
        (IF /\ has(4)
            /\ cont(1)
            /\ cont(2)
            /\ cont(3)
            /\ b = 240 => At(s, i + 1) >= 144
            /\ b = 244 => At(s, i + 1) <= 143
         THEN 4 ELSE 0)
    ELSE 0

\* the offset up to which s is well-formed UTF-8, from offset i on
RECURSIVE Utf8ValidUpTo(_, _)
Utf8ValidUpTo(s, i) ==
    IF i >= Len(s) THEN Len(s)
    ELSE LET n == Utf8SequenceLength(s, i) IN
         IF n = 0 THEN i ELSE Utf8ValidUpTo(s, i + n)

\* core::str::from_utf8: the same bytes as a str, or a Utf8Error
from_utf8(s) ==
    LET valid_up_to == Utf8ValidUpTo(s, 0) IN
    IF valid_up_to = Len(s) THEN Ok(s)
    ELSE [tag |-> "Err", kind |-> "Utf8Error", valid_up_to |-> valid_up_to]

\* StringTable::get_string
get_string(self, i) ==
    IF i >= Len(self) THEN None
    ELSE LET rest == Slice(self, i, Len(self))
             endpoint == position(rest, 0)
         IN IF endpoint = -1 THEN None
            ELSE Some(from_utf8(Slice(rest, 0, endpoint)))

\* the state of the string table when another decoder runs
StrIdle ==
    /\ string_table = <<>>
    /\ str_index = 0
    /\ string = NoResult
    /\ spc = "idle"

(***************************************************************************)
(* ELF state when the EDD decoders are under test, and the reverse         *)
(***************************************************************************)
NoIter == [tag |-> "None"]
NoBuild == [overflow_checks |-> FALSE, usize_bits |-> 0]
NoBuf == [len |-> 0, class |-> 0]

ElfIdle ==
    /\ build = NoBuild
    /\ buf = NoBuf
    /\ file = NoResult
    /\ iter = NoIter
    /\ yielded = <<>>
    /\ fpc = "idle"

EddIdle ==
    /\ target = "none"
    /\ bytes = <<>>
    /\ mem = <<>>
    /\ res = NoResult
    /\ first = NoResult
    /\ changed = -1
    /\ epc = "idle"

AccessIdle ==
    /\ program_header = NoResult
    /\ segment = NoResult
    /\ section_index = -1
    /\ section = NoResult

EntryIdle ==
    /\ entry_kind = "none"
    /\ entry_class = 0
    /\ entry_bytes = <<>>
    /\ header_entry = NoResult
    /\ accessed = NoResult

FlagIdle ==
    /\ flag_type = "none"
    /\ flag_bits = 0
    /\ rendered = NoResult

ChainIdle ==
    /\ error_chain = NoResult
    /\ pushed = <<>>

AtaIdle ==
    /\ ata_pc = "idle"
    /\ status = 0
    /\ ticks = 0
    /\ readiness = NoResult
    /\ port_writes = <<>>
    /\ sectors_left = 0
    /\ outcome = NoResult

(***************************************************************************)
(* EDD: one decode, then one changed byte and a second decode              *)
(***************************************************************************)
InitEdd ==
    /\ \/ target = "DevicePathInformation" /\ bytes \in DpiInputs /\ mem = <<>>
       \/ target = "FixedDiskParameterTable" /\ bytes \in FdptInputs /\ mem = <<>>
       \/ target = "DriveParameters" /\ bytes \in DpInputs /\ mem \in MemoryInputs
    /\ res = NoResult
    /\ first = NoResult
    /\ changed = -1
    /\ epc = "input"
    /\ ElfIdle
    /\ StrIdle
    /\ AccessIdle /\ EntryIdle /\ FlagIdle /\ ChainIdle /\ AtaIdle

Decoded(result) ==
    /\ epc \in {"input", "changed"}
    /\ res' = result
    /\ epc' = IF epc = "input" THEN "decoded" ELSE "redecoded"
    /\ UNCHANGED <<target, bytes, mem, first, changed>>
    /\ UNCHANGED elfVars
    /\ UNCHANGED strVars
    /\ UNCHANGED <<accessVars, entryVars, flagVars, chainVars, ataVars>>

DecodeDevicePathInformation ==
    /\ target = "DevicePathInformation"
    /\ Decoded(DevicePathInformationTryFrom(bytes))

DecodeFixedDiskParameterTable ==
    /\ target = "FixedDiskParameterTable"
    /\ Decoded(FixedDiskParameterTableTryFrom(bytes))

DecodeDriveParameters ==
    /\ target = "DriveParameters"
    /\ Decoded(DriveParametersTryFrom(bytes, mem))

\* the caller changes one byte of a record that decoded, and decodes again
ChangeByte ==
    /\ epc = "decoded"
    /\ IsOk(res)
    /\ target \in {"DevicePathInformation", "FixedDiskParameterTable"}
    /\ \E i \in 0..(Len(bytes) - 1), d \in ChangeDeltas :
          /\ bytes' = WithByte(bytes, i, (At(bytes, i) + d) % 256)
          /\ changed' = i
    /\ first' = res
    /\ res' = NoResult
    /\ epc' = "changed"
    /\ UNCHANGED <<target, mem>>
    /\ UNCHANGED elfVars
    /\ UNCHANGED strVars
    /\ UNCHANGED <<accessVars, entryVars, flagVars, chainVars, ataVars>>

NextEdd ==
    \/ DecodeDevicePathInformation
    \/ DecodeFixedDiskParameterTable
    \/ DecodeDriveParameters
    \/ ChangeByte

SpecEdd == InitEdd /\ [][NextEdd]_vars

(***************************************************************************)
(* Unsigned numbers wider than TLC's 32-bit integers: a u32 is two         *)
(* 16-bit limbs <<low, high>>, a u64 four limbs, least significant first   *)
(***************************************************************************)
Limb == 65536

\* a number below 2^31 as a u64
U64Of(n) == <<n % Limb, n \div Limb, 0, 0>>

\* u32 -> u64 (.into(), as u64)
Widen(v) == <<v[1], v[2], 0, 0>>

\* a + b on u64: the wrapped sum and whether it overflowed
Add64(a, b) ==
    LET s1 == a[1] + b[1]
        s2 == a[2] + b[2] + s1 \div Limb
        s3 == a[3] + b[3] + s2 \div Limb
        s4 == a[4] + b[4] + s3 \div Limb
    IN [sum |-> <<s1 % Limb, s2 % Limb, s3 % Limb, s4 % Limb>>,
        overflow |-> s4 >= Limb]

\* a < b on u64
Lt64(a, b) ==
    \/ a[4] < b[4]
    \/ a[4] = b[4] /\ a[3] < b[3]
    \/ a[4] = b[4] /\ a[3] = b[3] /\ a[2] < b[2]
    \/ a[4] = b[4] /\ a[3] = b[3] /\ a[2] = b[2] /\ a[1] < b[1]

\* v as usize: the low usize_bits bits of a u64
AsUsize(v, usize_bits) == IF usize_bits = 32 THEN <<v[1], v[2], 0, 0>> ELSE v

\* the number a u64 below 2^31 stands for
NatOf(v) == v[1] + Limb * v[2]

\* a <= v <= b on u32
InRange32(v, a, b) ==
    /\ a[2] < v[2] \/ (a[2] = v[2] /\ a[1] <= v[1])
    /\ v[2] < b[2] \/ (v[2] = b[2] /\ v[1] <= b[1])

(***************************************************************************)
(* ELF header, src/bootloader/src/elf/header.rs                            *)
(***************************************************************************)
\* size_of::<ElfIdentifier>()
IDENT_SIZE == 16

\* inner::HEADER_SIZE
HEADER_SIZE(class) == IF class = 1 THEN 52 ELSE 64

\* program_header::ELF32_ENTRY_SIZE / ELF64_ENTRY_SIZE
PH_ENTRY_SIZE(class) == IF class = 1 THEN 32 ELSE 56

\* section::ELF32_ENTRY_SIZE / ELF64_ENTRY_SIZE
SH_ENTRY_SIZE(class) == IF class = 1 THEN 40 ELSE 64

ELF_MAGIC == <<127, 69, 76, 70>>

ObjectTypeKnown_OperatingSystemRangeOnly(value) ==
    value \in 0..4 \/ value \in 65024..65279

\* impl TryFrom<Halfword> for ObjectType: the values that resolve
ObjectTypeKnown(value) ==
    value \in 0..4 \/ value \in 65024..65279 \/ value \in 65280..65535

HeaderInvalid(field, v) == CantReadField("Header", field, "InvalidValue", v)

\* impl TryFrom<&[u8]> for Header, on the fields of a buffer b of b.len bytes
HeaderTryFrom(b) ==
    IF b.len < IDENT_SIZE THEN SizeError("Header", b.len)
    ELSE IF b.class \notin {1, 2} \/ b.encoding \notin {1, 2}
    THEN Err("Header", "Generic", "none", "InvalidValueForType", 0)
    ELSE IF b.magic # ELF_MAGIC
    THEN HeaderInvalid("magic", b.magic)
    ELSE IF b.encoding # 1
    THEN Err("Header", "Generic", "none", "UnsupportedEndianness", 0)
    ELSE IF b.len < HEADER_SIZE(b.class) THEN SizeError("Header", b.len)
    ELSE IF ~ObjectTypeKnown(b.type)
    THEN HeaderInvalid("type", b.type)
    ELSE IF b.version # <<1, 0>>
    THEN HeaderInvalid("version", 0)
    ELSE IF b.size # HEADER_SIZE(b.class)
    THEN HeaderInvalid("size", b.size)
    ELSE IF b.program_header_entry_size # PH_ENTRY_SIZE(b.class)
    THEN HeaderInvalid("phentsize", b.section_header_entry_size)
    ELSE IF b.section_header_entry_size # SH_ENTRY_SIZE(b.class)
    THEN HeaderInvalid("shentsize", b.section_header_entry_size)
    ELSE Ok([class |-> b.class,
             type |-> b.type,
             program_header_offset |-> b.program_header_offset,
             program_header_entry_size |-> b.program_header_entry_size,
             program_header_entries |-> b.program_header_entries,
             section_header_offset |-> b.section_header_offset,
             section_header_entry_size |-> b.section_header_entry_size,
             section_header_entries |-> b.section_header_entries])

(***************************************************************************)
(* File, src/common/src/elf/mod.rs                                         *)
(***************************************************************************)
\* entry_size * entries on Halfword: the product, or a panic when the
\* build checks arithmetic overflow
MulHalfword(entry_size, entries, bld) ==
    IF entry_size * entries >= Limb /\ bld.overflow_checks
    THEN Panic("attempt to multiply with overflow")
    ELSE Ok((entry_size * entries) % Limb)

\* the two comparisons File::try_from makes for one table:
\*   len < offset as usize || len < (offset + (entry_size * entries) as u64) as usize
\* "fits", "cant_fit", or a panic
TableCheck(len, offset, entry_size, entries, bld) ==
    IF Lt64(U64Of(len), AsUsize(offset, bld.usize_bits)) THEN Ok("cant_fit")
    ELSE
    LET product == MulHalfword(entry_size, entries, bld) IN
    IF IsPanic(product) THEN product
    ELSE
    LET end == Add64(offset, U64Of(product.val)) IN
    IF end.overflow /\ bld.overflow_checks
    THEN Panic("attempt to add with overflow")
    ELSE IF Lt64(U64Of(len), AsUsize(end.sum, bld.usize_bits)) THEN Ok("cant_fit")
    ELSE Ok("fits")

\* impl TryFrom<&[u8]> for File
FileTryFrom(b, bld) ==
    LET header == HeaderTryFrom(b) IN
    IF ~IsOk(header) THEN header
    ELSE
    LET h == header.val
        sections == TableCheck(b.len, h.section_header_offset,
                               h.section_header_entry_size,
                               h.section_header_entries, bld)
        programs == TableCheck(b.len, h.program_header_offset,
                               h.program_header_entry_size,
                               h.program_header_entries, bld)
    IN
    IF IsPanic(sections) THEN sections
    ELSE IF sections.val = "cant_fit" THEN CantFit("File", "section header")
    ELSE IF IsPanic(programs) THEN programs
    ELSE IF programs.val = "cant_fit" THEN CantFit("File", "program header")
    ELSE Ok([len |-> b.len, header |-> h])

(***************************************************************************)
(* Table entries, src/bootloader/src/elf/program_header.rs and section.rs  *)
(***************************************************************************)
\* impl TryFrom<u32> for ProgramHeaderEntryType: the values that resolve
ProgramHeaderEntryTypeKnown(value) ==
    \/ InRange32(value, <<0, 0>>, <<7, 0>>)
    \/ InRange32(value, <<8, 0>>, <<65535, 24575>>)
    \/ InRange32(value, <<0, 24576>>, <<65535, 65535>>)

\* impl TryFrom<Word> for SectionEntryType: the values that resolve
SectionEntryTypeKnown(value) ==
    \/ InRange32(value, <<0, 0>>, <<11, 0>>)
    \/ InRange32(value, <<14, 0>>, <<18, 0>>)
    \/ InRange32(value, <<0, 24576>>, <<65535, 28671>>)
    \/ InRange32(value, <<0, 28672>>, <<65535, 32767>>)
    \/ InRange32(value, <<0, 32768>>, <<65535, 65535>>)

EntryInvalid(facility, v) == CantReadField(facility, "type", "InvalidValue", v)

\* program_header::HeaderEntry::try_from_bytes on a slice of `available`
\* bytes that starts with the fields of `entry`
ProgramHeaderEntryTryFromBytes(available, entry, class, facility) ==
    IF available < PH_ENTRY_SIZE(class) THEN SizeError(facility, available)
    ELSE IF ~ProgramHeaderEntryTypeKnown(entry.type)
    THEN EntryInvalid(facility, entry.type)
    ELSE IF class = 1 /\ ~InRange32(entry.flags, <<0, 0>>, <<7, 0>>)
    THEN EntryInvalid(facility, entry.flags)
    ELSE Ok(entry)

\* section::HeaderEntry::try_from_bytes
SectionHeaderEntryTryFromBytes(available, entry, class, facility) ==
    IF available < SH_ENTRY_SIZE(class) THEN SizeError(facility, available)
    ELSE IF ~SectionEntryTypeKnown(entry.type)
    THEN EntryInvalid(facility, entry.type)
    ELSE Ok(entry)

\* ProgramHeaderEntries::new / SectionHeaderEntries::new on a slice of
\* slice_len bytes: the size check, then the iterator at its start
EntriesNew(kind, slice_len, class, n_entries, entry_size) ==
    IF slice_len < n_entries * entry_size
    THEN CantFit(kind, IF kind = "ProgramHeader" THEN "program headers" ELSE "sections")
    ELSE Ok([kind |-> kind, len |-> slice_len, class |-> class,
             bytes_read_so_far |-> 0])

\* &self.bytes[offset as usize..][..(entry_size * n_entries) as usize] and
\* the iterator made of it by File::sections / File::program_headers
TableEntries(kind, f, offset, header_entry_size, n_entries, entry_size, bld) ==
    LET start == AsUsize(offset, bld.usize_bits) IN
    IF Lt64(U64Of(f.len), start) THEN Panic("range start index out of range")
    ELSE
    LET product == MulHalfword(header_entry_size, n_entries, bld) IN
    IF IsPanic(product) THEN product
    ELSE IF product.val > f.len - NatOf(start)
    THEN Panic("range end index out of range")
    ELSE
    LET made == EntriesNew(kind, product.val, f.header.class, n_entries, entry_size) IN
    IF IsOk(made) THEN made
    ELSE Panic(IF kind = "ProgramHeader"
               THEN "not enough bytes for the program header"
               ELSE "not enough bytes for the section header")

\* File::sections
Sections(f, bld) ==
    TableEntries("SectionHeader", f, f.header.section_header_offset,
                 f.header.section_header_entry_size,
                 f.header.section_header_entries,
                 SH_ENTRY_SIZE(f.header.class), bld)

\* File::program_headers
ProgramHeaders(f, bld) ==
    TableEntries("ProgramHeader", f, f.header.program_header_offset,
                 f.header.program_header_entry_size,
                 f.header.program_header_entries,
                 PH_ENTRY_SIZE(f.header.class), bld)

\* the cursor after an item: Result::inspect runs its closure on Ok only
CursorAfter(it, item, entry_size) ==
    IF IsOk(item) THEN it.bytes_read_so_far + entry_size ELSE it.bytes_read_so_far

(***************************************************************************)
(* ELF inputs                                                              *)
(***************************************************************************)
\* entries per table whose content is enumerated
MaxEntries == 3

\* items taken from one iterator before the caller gives up
MaxYield == 5

\* overflow checks on (debug, the unit tests) or off (--release), and the
\* pointer width of the target (i686 bootloader, x86_64 host)
Builds == [overflow_checks : BOOLEAN, usize_bits : {32, 64}]

Tables == {"ProgramHeader", "SectionHeader"}

EntrySize(table, class) ==
    IF table = "ProgramHeader" THEN PH_ENTRY_SIZE(class) ELSE SH_ENTRY_SIZE(class)

\* the smallest entry count whose table size does not fit a Halfword
WrapCount(entry_size) == (Limb - 1) \div entry_size + 1

Min(a, b) == IF a < b THEN a ELSE b

\* a Load entry with flags R+X, and one with a flag bit outside the three
ProgramEntryInputs ==
    {[type |-> <<1, 0>>, flags |-> <<5, 0>>], [type |-> <<1, 0>>, flags |-> <<8, 0>>]}

\* a Strtab entry, and one with the unassigned type 12
SectionEntryInputs ==
    {[type |-> <<3, 0>>, flags |-> <<0, 0>>], [type |-> <<12, 0>>, flags |-> <<0, 0>>]}

EntryInputs(table) ==
    IF table = "ProgramHeader" THEN ProgramEntryInputs ELSE SectionEntryInputs

ValidEntry(table) ==
    IF table = "ProgramHeader" THEN [type |-> <<1, 0>>, flags |-> <<5, 0>>]
    ELSE [type |-> <<3, 0>>, flags |-> <<0, 0>>]

\* where a header may say the varied table starts: right after what
\* precedes it, at the end of the buffer, one byte past it and, in the
\* 64-bit class, above 4 GiB and at the top of the address space
OffsetKinds(class) ==
    IF class = 1 THEN {"in_place", "at_end", "past_end"}
    ELSE {"in_place", "at_end", "past_end", "above_4g", "top"}

OffsetOf(kind, start, len) ==
    CASE kind = "in_place" -> U64Of(start)
      [] kind = "at_end" -> U64Of(len)
      [] kind = "past_end" -> U64Of(len + 1)
      [] kind = "above_4g" -> <<start, 0, 1, 0>>
      [] kind = "top" -> <<65472, 65535, 65535, 65535>>

\* bytes from the start of the varied table to the end of the buffer:
\* whole entries, or one byte less
Rooms(entry_size) ==
    {k * entry_size : k \in 0..MaxEntries}
        \cup {k * entry_size - 1 : k \in 1..MaxEntries}

OtherTable(table) ==
    IF table = "ProgramHeader" THEN "SectionHeader" ELSE "ProgramHeader"

\* a buffer with a well-formed header; `focus` is the table whose
\* descriptor and entries are varied, the other table follows the header
\* with `other` well-formed entries, and the varied table comes after it
ElfBuffer(class, focus, kind, n, entries, other, room) ==
    LET ph == focus = "ProgramHeader"
        rest == [k \in 1..other |-> ValidEntry(OtherTable(focus))]
        start == HEADER_SIZE(class) + other * EntrySize(OtherTable(focus), class)
        len == start + room
        offset == OffsetOf(kind, start, len)
    IN
    [len |-> len,
     magic |-> ELF_MAGIC,
     class |-> class,
     encoding |-> 1,
     version |-> <<1, 0>>,
     type |-> 2,
     size |-> HEADER_SIZE(class),
     program_header_offset |->
        IF ph THEN offset ELSE U64Of(HEADER_SIZE(class)),
     program_header_entry_size |-> PH_ENTRY_SIZE(class),
     program_header_entries |-> IF ph THEN n ELSE other,
     program_entries |-> IF ph THEN entries ELSE rest,
     section_header_offset |->
        IF ph THEN U64Of(HEADER_SIZE(class)) ELSE offset,
     section_header_entry_size |-> SH_ENTRY_SIZE(class),
     section_header_entries |-> IF ph THEN other ELSE n,
     section_entries |-> IF ph THEN rest ELSE entries]

ElfInputs ==
    UNION {
      UNION {
        {ElfBuffer(class, focus, kind, n, entries, other, room) :
            kind \in OffsetKinds(class),
            room \in Rooms(EntrySize(focus, class)),
            other \in {0, 1},
            entries \in [1..Min(n, MaxEntries) -> EntryInputs(focus)]}
        : n \in (0..MaxEntries) \cup {WrapCount(EntrySize(focus, class))}}
      : class \in {1, 2}, focus \in Tables}

\* one field of a well-formed header spoiled
HeaderDefects ==
    {"magic", "class", "encoding", "type", "version", "size", "phentsize",
     "shentsize", "truncated"}

Spoiled(b, defect) ==
    CASE defect = "magic" -> [b EXCEPT !.magic = <<127, 69, 76, 71>>]
      [] defect = "class" -> [b EXCEPT !.class = 3]
      [] defect = "encoding" -> [b EXCEPT !.encoding = 2]
      [] defect = "type" -> [b EXCEPT !.type = 5]
      [] defect = "version" -> [b EXCEPT !.version = <<2, 0>>]
      [] defect = "size" -> [b EXCEPT !.size = @ + 1]
      [] defect = "phentsize" -> [b EXCEPT !.program_header_entry_size = @ + 1]
      [] defect = "shentsize" -> [b EXCEPT !.section_header_entry_size = @ + 1]
      [] defect = "truncated" -> [b EXCEPT !.len = IDENT_SIZE]

SpoiledInputs ==
    {Spoiled(ElfBuffer(class, "SectionHeader", "in_place", 0, <<>>, 0, 0),
             defect) :
        class \in {1, 2}, defect \in HeaderDefects}

\* values of the type field: the ends of the ranges ObjectType knows and
\* their neighbours
ObjectTypeInputs == {0, 4, 5, 65023, 65024, 65279, 65280, 65535}

\* well-formed buffers without tables, over the values of the type field
TypedInputs ==
    {[ElfBuffer(class, "SectionHeader", "in_place", 0, <<>>, 0, 0)
         EXCEPT !.type = t] : class \in {1, 2}, t \in ObjectTypeInputs}

(***************************************************************************)
(* ELF: File::try_from, then the entry iterators                           *)
(***************************************************************************)
InitElf ==
    /\ build \in Builds
    /\ buf \in ElfInputs \cup SpoiledInputs \cup TypedInputs
    /\ file = NoResult
    /\ iter = NoIter
    /\ yielded = <<>>
    /\ fpc = "input"
    /\ EddIdle
    /\ StrIdle
    /\ AccessIdle /\ EntryIdle /\ FlagIdle /\ ChainIdle /\ AtaIdle

\* File::try_from(bytes)
OpenFile ==
    /\ fpc = "input"
    /\ file' = FileTryFrom(buf, build)
    /\ fpc' = IF IsOk(file') THEN "file"
              ELSE IF IsPanic(file') THEN "aborted" ELSE "rejected"
    /\ UNCHANGED <<build, buf, iter, yielded>>
    /\ UNCHANGED eddVars
    /\ UNCHANGED strVars
    /\ UNCHANGED <<accessVars, entryVars, flagVars, chainVars, ataVars>>

\* a fresh iterator replaces the one in use; a panic ends the program
Started(made) ==
    /\ fpc \in {"file", "iterating", "exhausted"}
    /\ iter' = made
    /\ yielded' = <<>>
    /\ fpc' = IF IsPanic(made) THEN "panicked" ELSE "iterating"
    /\ UNCHANGED <<build, buf, file>>
    /\ UNCHANGED eddVars
    /\ UNCHANGED strVars
    /\ UNCHANGED <<accessVars, entryVars, flagVars, chainVars, ataVars>>

\* file.program_headers()
CallProgramHeaders == IsOk(file) /\ Started(ProgramHeaders(file.val, build))

\* file.sections()
CallSections == IsOk(file) /\ Started(Sections(file.val, build))

\* the entry the cursor of the live iterator is at
EntryAt(entries, index, table) ==
    IF index < Len(entries) THEN entries[index + 1] ELSE ValidEntry(table)

\* Iterator::next of ProgramHeaderEntries / SectionHeaderEntries
EntriesNext(kind, entries, entry_size) ==
    /\ fpc = "iterating"
    /\ IsOk(iter)
    /\ iter.val.kind = kind
    /\ Len(yielded) < MaxYield
    /\ LET it == iter.val IN
       IF it.bytes_read_so_far >= it.len
       THEN /\ fpc' = "exhausted"
            /\ UNCHANGED <<iter, yielded>>
       ELSE LET index == it.bytes_read_so_far \div entry_size
                available == it.len - it.bytes_read_so_far
                facility == <<kind \o "Entry", entry_size>>
                item == IF kind = "ProgramHeader"
                        THEN ProgramHeaderEntryTryFromBytes(
                                 available, EntryAt(entries, index, kind),
                                 it.class, facility)
                        ELSE SectionHeaderEntryTryFromBytes(
                                 available, EntryAt(entries, index, kind),
                                 it.class, facility)
            IN /\ yielded' = Append(yielded, [item |-> item, index |-> index])
               /\ iter' = Ok([it EXCEPT !.bytes_read_so_far =
                                          CursorAfter(it, item, entry_size)])
               /\ fpc' = fpc
    /\ UNCHANGED <<build, buf, file>>
    /\ UNCHANGED eddVars
    /\ UNCHANGED strVars
    /\ UNCHANGED <<accessVars, entryVars, flagVars, chainVars, ataVars>>

ProgramHeaderEntriesNext ==
    EntriesNext("ProgramHeader", buf.program_entries, PH_ENTRY_SIZE(buf.class))

SectionHeaderEntriesNext ==
    EntriesNext("SectionHeader", buf.section_entries, SH_ENTRY_SIZE(buf.class))

NextElf ==
    \/ OpenFile
    \/ CallProgramHeaders
    \/ CallSections
    \/ ProgramHeaderEntriesNext
    \/ SectionHeaderEntriesNext

SpecElf == InitElf /\ [][NextElf]_vars

(***************************************************************************)
(* StringTable: one call of get_string                                     *)
(***************************************************************************)
\* longest string table that is enumerated
MaxTable == 4

\* NUL, 'A', the two bytes of U+00E9 (a lead byte and a continuation
\* byte), and a byte that no UTF-8 text contains
TableBytes == {0, 65, 195, 169, 255}

StringTableInputs == UNION {[1..n -> TableBytes] : n \in 0..MaxTable}

InitStr ==
    /\ string_table \in StringTableInputs
    /\ str_index \in 0..(MaxTable + 1)
    /\ string = NoResult
    /\ spc = "input"
    /\ EddIdle
    /\ ElfIdle
    /\ AccessIdle /\ EntryIdle /\ FlagIdle /\ ChainIdle /\ AtaIdle

\* string_table.get_string(index)
GetString ==
    /\ spc = "input"
    /\ string' = get_string(string_table, str_index)
    /\ spc' = "returned"
    /\ UNCHANGED <<string_table, str_index>>
    /\ UNCHANGED eddVars
    /\ UNCHANGED elfVars
    /\ UNCHANGED <<accessVars, entryVars, flagVars, chainVars, ataVars>>

NextStr == GetString

SpecStr == InitStr /\ [][NextStr]_vars

(***************************************************************************)
(* Claims on the EDD decoders, checked under SpecEdd                       *)
(***************************************************************************)
DpiDecoded == target = "DevicePathInformation" /\ epc \in {"decoded", "redecoded"}
FdptDecoded == target = "FixedDiskParameterTable" /\ epc \in {"decoded", "redecoded"}
DpDecoded == target = "DriveParameters" /\ epc = "decoded"

\* C1: DriveParameters::try_from returns Ok or a typed Err for a slice of
\* any length; it never panics on bytes[30] or bytes[31] of a short slice.
C1_NeverPanics == DpDecoded => ~IsPanic(res)

\* C6: a FixedDiskParameterTable decodes only if the 8-bit wrapping sum of
\* its 16 bytes is 0, and a record that decoded fails with the checksum
\* error once any single byte of it is changed.
C6_FdptChecksumFirst ==
    FdptDecoded =>
        /\ IsOk(res) => WrappingSum(bytes, FDPT_SIZE) = 0
        /\ epc = "redecoded" => IsChecksumError(res)

\* C6 witness: the extension revision byte of a decoded record was changed
\* and the second decode reported the checksum, not the revision.
C6_Witness ==
    /\ target = "FixedDiskParameterTable"
    /\ epc = "redecoded"
    /\ IsOk(first)
    /\ changed = 14
    /\ IsChecksumError(res)

C8_EveryReservedPartRejected ==
    /\ (DpiDecoded /\ IsOk(res)) =>
          LET raw == DevicePathInformationRaw(bytes) IN
          raw.reserved_1 = 0 /\ raw.reserved_2 = 0 /\ raw.reserved_3 = 0
    /\ (FdptDecoded /\ IsOk(res)) =>
          LET raw == FixedDiskParameterTableRaw(bytes) IN
          /\ raw.internal = 0
          /\ raw.unused = 0
          /\ raw.irq \div 16 = 0
          /\ raw.pio_type \div 16 = 0
          /\ raw.head_prefix % 16 = 0

\* C8 amended: no record decodes with a nonzero DevicePathInformation
\* reserved_1, reserved_2 or reserved_3, or with a nonzero upper nibble of
\* irq, upper nibble of pio_type or bits 0-3 of head_prefix; the internal
\* byte and the unused word of the FixedDiskParameterTable are not checked.
C8_CheckedReservedPartsRejected ==
    /\ (DpiDecoded /\ IsOk(res)) =>
          LET raw == DevicePathInformationRaw(bytes) IN
          raw.reserved_1 = 0 /\ raw.reserved_2 = 0 /\ raw.reserved_3 = 0
    /\ (FdptDecoded /\ IsOk(res)) =>
          LET raw == FixedDiskParameterTableRaw(bytes) IN
          /\ raw.irq \div 16 = 0
          /\ raw.pio_type \div 16 = 0
          /\ raw.head_prefix % 16 = 0

\* C8 witness: a device path record with a correct checksum and a nonzero
\* reserved_3 was decoded and rejected for its reserved bytes.
C8_Witness ==
    /\ target = "DevicePathInformation"
    /\ epc = "decoded"
    /\ At(bytes, 34) # 0
    /\ WrappingSum(bytes, DPI_SIZE) = 0
    /\ IsFieldError(res, "bedd")
    /\ res.reason = "InvalidValuesForReservedBits"

\* the first byte of the 8-byte path that the tagged variant does not use
FirstUnusedHostByte(tag) ==
    IF tag = Pad(TAG_PCI, 4) THEN 3 ELSE IF tag = Pad(TAG_ISA, 4) THEN 2 ELSE 8

FirstUnusedDeviceByte(tag) ==
    IF tag = Pad(TAG_ATAPI, 8) THEN 2
    ELSE IF tag \in {Pad(TAG_ATA, 8), Pad(TAG_SCSI, 8), Pad(TAG_USB, 8),
                     Pad(TAG_FIBRE, 8)} THEN 1
    ELSE 8

\* C9: no record decodes with a nonzero byte in the part of interface_path
\* or device_path that its host bus or interface variant does not use.
C9_UnusedPathBytesRejected ==
    (DpiDecoded /\ IsOk(res)) =>
        LET raw == DevicePathInformationRaw(bytes) IN
        /\ AllZero(raw.interface_path, FirstUnusedHostByte(raw.host_bus_type), 8)
        /\ AllZero(raw.device_path, FirstUnusedDeviceByte(raw.interface_type), 8)

\* C10: a record tagged "ATAPI" that decodes gives Interface::Atapi with
\* logical_unit_number = device_path byte 1, and one tagged "ATA" gives
\* Interface::Ata.
C10_TagSelectsVariant ==
    (DpiDecoded /\ IsOk(res)) =>
        LET raw == DevicePathInformationRaw(bytes) IN
        /\ raw.interface_type = Pad(TAG_ATAPI, 8) =>
              /\ res.val.interface.variant = "Atapi"
              /\ res.val.interface.logical_unit_number = At(raw.device_path, 1)
        /\ raw.interface_type = Pad(TAG_ATA, 8) =>
              res.val.interface.variant = "Ata"


(***************************************************************************)
(* Claims on the ELF file and its entry iterators, checked under SpecElf   *)
(***************************************************************************)
\* offset + entry_size * entries > len, on the integers
Exceeds(len, offset, entry_size, entries) ==
    \/ offset[3] # 0
    \/ offset[4] # 0
    \/ offset[2] >= Limb \div 2
    \/ NatOf(offset) + entry_size * entries > len

\* a table described by the header of the buffer reaches past its end
SomeTableExceeds ==
    \/ Exceeds(buf.len, buf.section_header_offset,
               buf.section_header_entry_size, buf.section_header_entries)
    \/ Exceeds(buf.len, buf.program_header_offset,
               buf.program_header_entry_size, buf.program_header_entries)

\* the entry count the header gives for the table of the live iterator
EntryCount ==
    IF iter.val.kind = "ProgramHeader" THEN buf.program_header_entries
    ELSE buf.section_header_entries

\* C2: whenever the header is well formed and offset + entry_size *
\* entry_count, computed on the integers, exceeds the length of the buffer
\* for the section or the program header table, File::try_from returns a
\* CantFit error
C2_OversizedTableRejected ==
    (fpc # "input" /\ IsOk(HeaderTryFrom(buf)) /\ SomeTableExceeds)
        => (IsErr(file) /\ file.kind = "CantFit")

\* C3: an iterator made by program_headers() or sections() never yields
\* more items than the header's entry count, and when it returns None it
\* has yielded exactly that many
C3_YieldsExactlyEntryCount ==
    IsOk(iter) =>
        /\ Len(yielded) <= EntryCount
        /\ fpc = "exhausted" => Len(yielded) = EntryCount

\* C4: an entry that fails validation is yielded as an Err once, and the
\* item that follows it is decoded from the next entry of the table
C4_ErrThenNextEntry ==
    \A i \in 1..(Len(yielded) - 1) :
        IsErr(yielded[i].item) => yielded[i + 1].index = yielded[i].index + 1

\* C5: sections() and program_headers() never panic on a File that
\* File::try_from returned
C5_AccessorsNeverPanic == fpc # "panicked"

(***************************************************************************)
(* Further claims on the EDD decoders, checked under SpecEdd               *)
(***************************************************************************)
\* C11: a DevicePathInformation record decodes only if its 4 host bus tag
\* bytes are exactly "PCI " or "ISA " and its 8 interface tag bytes are
\* exactly one of the six known space-padded tags.
C11_OnlyExactTagsAccepted ==
    (DpiDecoded /\ IsOk(res)) =>
        LET raw == DevicePathInformationRaw(bytes) IN
        /\ raw.host_bus_type \in {Pad(t, 4) : t \in HostTags}
        /\ raw.interface_type \in {Pad(t, 8) : t \in InterfaceTags}


\* the raw record at the start of the slice under decode
DpRaw == DriveParametersRaw(bytes)

\* the names under which DriveParameters reports a field of the raw record
DpFieldNames ==
    {"buffer size", "cylinders", "heads", "sectors_per_track",
     "bytes_per_sector", "information_flags"}

\* the bit of weight `flag` (a power of two) is 1 in `flags`
HasFlag(flags, flag) == (flags \div flag) % 2 = 1

\* buffer_size, bytes_per_sector and the flag implications all hold
DpRecordConsistent(v) ==
    /\ v.buffer_size \in {26, 30}
    /\ v.bytes_per_sector # 0
    /\ HasFlag(v.information_flags, 4) =>
          /\ HasFlag(v.information_flags, 16)
          /\ HasFlag(v.information_flags, 32)
    /\ HasFlag(v.information_flags, 64) => HasFlag(v.information_flags, 4)

\* C13: an Ok DriveParameters has buffer_size 26 or 30, a nonzero
\* bytes_per_sector, Removable only with SupportsLineChange and Lockable,
\* and NoMediaPresent only with Removable; a raw record that breaks one of
\* these gives CantReadField(name, InvalidValue) and no value.
C13_DriveParametersInvariants ==
    DpDecoded =>
        /\ IsOk(res) => DpRecordConsistent(res.val)
        /\ (Len(bytes) >= DP_SIZE /\ ~DpRecordConsistent(DpRaw)) =>
              /\ IsErr(res)
              /\ res.kind = "CantReadField"
              /\ res.reason = "InvalidValue"
              /\ res.field \in DpFieldNames
              /\ DpRaw.buffer_size \notin {26, 30} => res.field = "buffer size"

\* C13 witness: a record whose only defect is Removable without Lockable
\* was rejected for its information_flags.
C13_Witness ==
    /\ DpDecoded
    /\ Len(bytes) >= DP_SIZE
    /\ DpRaw.information_flags = 20
    /\ DpRaw.buffer_size = 30
    /\ DpRaw.bytes_per_sector # 0
    /\ IsFieldError(res, "information_flags")
    /\ res.reason = "InvalidValue"

\* cylinders, heads and sectors_per_track of v are all nonzero
GeometryNonzero(v) ==
    /\ v.cylinders # <<0, 0>>
    /\ v.heads # <<0, 0>>
    /\ v.sectors_per_track # <<0, 0>>

C15_HeadPrefixPattern ==
    (FdptDecoded /\ IsOk(res)) =>
        /\ HasFlag(res.val.head_prefix, 128)
        /\ HasFlag(res.val.head_prefix, 32)
        /\ res.val.head_prefix % 16 = 0

\* a slice long enough for the two signature bytes at offset 30, whose raw
\* record passes the field checks
DpRecordAccepted ==
    /\ DpDecoded
    /\ Len(bytes) >= DP_SIZE + 2
    /\ IsOk(DriveParametersFromRaw(DpRaw))

\* C16: the FixedDiskParameterTable is resolved exactly when buffer_size is
\* 30 and configuration_parameters is not 0xFFFFFFFF; with buffer_size 26
\* or the sentinel pointer the decode does not fail on account of the
\* pointer and fixed_disk_parameter_table is None.
C16_TableResolvedOnlyForExtendedRecord ==
    DpRecordAccepted =>
        IF DpRaw.buffer_size = 30 /\ DpRaw.configuration_parameters # <<65535, 65535>>
        THEN IsOk(res) => IsOk(res.val.fixed_disk_parameter_table)
        ELSE /\ ~(IsErr(res) /\ res.facility \in {"DriveParameters",
                                                   "FixedDiskParameterTable"})
             /\ IsOk(res) => res.val.fixed_disk_parameter_table = NoResult

\* C17: an Ok DriveParameters carries device_path_information only if its
\* buffer_size is 30.
C17_DevicePathOnlyForExtendedRecord ==
    (DpDecoded /\ IsOk(res) /\ IsOk(res.val.device_path_information)) =>
        res.val.buffer_size = 30

(***************************************************************************)
(* Further claims on the ELF decoder, checked under SpecElf                *)
(***************************************************************************)
\* the conditions on a header, one by one
HeaderWellFormed(b) ==
    /\ b.class \in {1, 2}
    /\ b.len >= (IF b.class = 1 THEN 52 ELSE 64)
    /\ b.magic = <<127, 69, 76, 70>>
    /\ b.encoding = 1
    /\ b.version = <<1, 0>>
    /\ b.type \in (0..4) \cup (65024..65535)
    /\ b.size = (IF b.class = 1 THEN 52 ELSE 64)
    /\ b.program_header_entry_size = (IF b.class = 1 THEN 32 ELSE 56)
    /\ b.section_header_entry_size = (IF b.class = 1 THEN 40 ELSE 64)

\* C12: Header::try_from fails (and File::try_from with its error) exactly
\* when the buffer is too short for the class, or magic, class, encoding,
\* version, type, header size, program header entry size or section header
\* entry size is not the one the class requires.
C12_HeaderOkExactlyWhenWellFormed ==
    fpc # "input" =>
        /\ IsOk(HeaderTryFrom(buf)) <=> HeaderWellFormed(buf)
        /\ (IsErr(file) /\ file.facility = "Header") <=> ~HeaderWellFormed(buf)

\* C12 witness: a header whose only defect is its program header entry size
\* was rejected for it.
C12_Witness ==
    /\ fpc = "rejected"
    /\ buf.program_header_entry_size # PH_ENTRY_SIZE(buf.class)
    /\ buf.section_header_entry_size = SH_ENTRY_SIZE(buf.class)
    /\ IsFieldError(file, "phentsize")


\* the facility an error about entry k of the iterated table should carry
EntryFacility(k) == <<iter.val.kind \o "Entry", k>>

\* C18: an error item produced by program_headers() or sections() carries
\* the facility ProgramHeaderEntry(k) / SectionHeaderEntry(k), k being the
\* index in its table of the entry that failed.
C18_ErrorCarriesEntryIndex ==
    IsOk(iter) =>
        \A i \in 1..Len(yielded) :
            IsErr(yielded[i].item) =>
                yielded[i].item.facility = EntryFacility(yielded[i].index)

\* C19: a CantReadField(name, InvalidValue(v)) error names the field whose
\* check failed and carries its value: a wrong program_header_entry_size
\* is reported as ("phentsize", that size), a program header entry with a
\* known type is not reported under "type", and nonzero reserved bytes of a
\* DevicePathInformation are not reported under "bedd".
C19_ErrorNamesFailingField ==
    /\ (fpc = "rejected" /\ IsFieldError(file, "phentsize")) =>
          file.value = buf.program_header_entry_size
    /\ (IsOk(iter) /\ iter.val.kind = "ProgramHeader") =>
          \A i \in 1..Len(yielded) :
              IsFieldError(yielded[i].item, "type") =>
                  ~ProgramHeaderEntryTypeKnown(
                      EntryAt(buf.program_entries, yielded[i].index,
                              "ProgramHeader").type)
    /\ (DpiDecoded /\ Len(bytes) >= DPI_SIZE /\ IsFieldError(res, "bedd")) =>
          LE16(bytes, 0) # BEDD


(***************************************************************************)
(* Claims on the string table, checked under SpecStr                       *)
(***************************************************************************)
\* the offsets at or after index at which string_table holds a NUL byte
NulsFromIndex == {k \in str_index..(Len(string_table) - 1) : At(string_table, k) = 0}

\* the smallest of them
NextNul == CHOOSE k \in NulsFromIndex : \A j \in NulsFromIndex : k <= j

\* C20 as stated: get_string returns None exactly when index is out of
\* range (index >= table length).
C20_NoneExactlyWhenOutOfRange ==
    spc = "returned" => (string = None <=> str_index >= Len(string_table))

\* C20 amended: get_string returns None exactly when index is out of range
\* or no NUL byte lies at or after index; otherwise it returns Some, holding
\* the bytes from index up to but excluding the next NUL byte as a str when
\* they are well-formed UTF-8, and a UTF-8 error when they are not.
C20_NoneWhenOutOfRangeOrUnterminated ==
    spc = "returned" =>
        IF str_index >= Len(string_table) \/ NulsFromIndex = {}
        THEN string = None
        ELSE LET text == [k \in 1..(NextNul - str_index) |-> string_table[str_index + k]] IN
             /\ string.tag = "Some"
             /\ IF Utf8ValidUpTo(text, 0) = Len(text)
                THEN string.val = Ok(text)
                ELSE string.val.tag = "Err" /\ string.val.kind = "Utf8Error"

\* C20 witness: get_string returned a two-byte string that ends before a
\* NUL which is not the last NUL of the table.
C20_Witness ==
    /\ spc = "returned"
    /\ str_index = 0
    /\ Len(string_table) = 4
    /\ string_table[3] = 0
    /\ string_table[4] = 0
    /\ string = Some(Ok(<<195, 169>>))


(***************************************************************************)
(* Entry records and their accessors, src/bootloader/src/elf/              *)
(* program_header.rs and section.rs.  A decoded entry keeps the class of   *)
(* its layout; the fields of a class-1 entry are u32, those of a class-2   *)
(* entry u64 (type, flags of a program entry, name_index, link and info    *)
(* are u32 in both)                                                        *)
(***************************************************************************)
\* inner::Elf32HeaderEntry / Elf64HeaderEntry of program_header.rs read
\* from the front of s (try_read_from_prefix)
ProgramHeaderEntryRead(s, class) ==
    IF class = 1
    THEN [class |-> 1,
          type |-> LE32(s, 0),
          offset |-> LE32(s, 4),
          virtual_address |-> LE32(s, 8),
          physical_address |-> LE32(s, 12),
          segment_size_on_file |-> LE32(s, 16),
          segment_size_in_memory |-> LE32(s, 20),
          flags |-> LE32(s, 24),
          alignment |-> LE32(s, 28)]
    ELSE [class |-> 2,
          type |-> LE32(s, 0),
          flags |-> LE32(s, 4),
          offset |-> LE64(s, 8),
          virtual_address |-> LE64(s, 16),
          physical_address |-> LE64(s, 24),
          segment_size_on_file |-> LE64(s, 32),
          segment_size_in_memory |-> LE64(s, 40),
          alignment |-> LE64(s, 48)]

\* inner::Elf32HeaderEntry / Elf64HeaderEntry of section.rs
SectionHeaderEntryRead(s, class) ==
    IF class = 1
    THEN [class |-> 1,
          name_index |-> LE32(s, 0),
          type |-> LE32(s, 4),
          flags |-> LE32(s, 8),
          address |-> LE32(s, 12),
          offset |-> LE32(s, 16),
          size |-> LE32(s, 20),
          link |-> LE32(s, 24),
          info |-> LE32(s, 28),
          address_alignment |-> LE32(s, 32),
          entry_size |-> LE32(s, 36)]
    ELSE [class |-> 2,
          name_index |-> LE32(s, 0),
          type |-> LE32(s, 4),
          flags |-> LE64(s, 8),
          address |-> LE64(s, 16),
          offset |-> LE64(s, 24),
          size |-> LE64(s, 32),
          link |-> LE32(s, 40),
          info |-> LE32(s, 44),
          address_alignment |-> LE64(s, 48),
          entry_size |-> LE64(s, 56)]

\* `field.get() as u64` on a class-1 entry, `field.get()` on a class-2 one
AsU64_SignExtended(e, v) ==
    IF e.class = 1
    THEN IF v[2] >= 32768 THEN <<v[1], v[2], 65535, 65535>> ELSE Widen(v)
    ELSE v

AsU64(e, v) == IF e.class = 1 THEN Widen(v) ELSE v

\* program_header::HeaderEntry accessors
ph_offset(e) == AsU64(e, e.offset)
ph_virtual_address(e) == AsU64(e, e.virtual_address)
ph_physical_address(e) == AsU64(e, e.physical_address)
ph_segment_size_on_file(e) == AsU64(e, e.segment_size_on_file)
ph_segment_size_in_memory(e) == AsU64(e, e.segment_size_in_memory)
ph_on_file_size(e) == AsU64(e, e.segment_size_on_file)
ph_in_memory_size(e) == AsU64(e, e.segment_size_in_memory)
ph_address_alignment(e) == AsU64(e, e.alignment)

\* HeaderEntry::permissions: flags.get() as u8
permissions(e) == e.flags[1] % 256

\* program_header::HeaderEntry::r#type
ProgramHeaderEntryTypeNames ==
    <<"Null", "Load", "Dynamic", "Interpreter", "Note", "SharedLibrary",
      "ProgramHeader", "ThreadLocalStorage">>

ph_type(e) ==
    IF InRange32(e.type, <<0, 0>>, <<7, 0>>)
    THEN Ok([variant |-> ProgramHeaderEntryTypeNames[e.type[1] + 1]])
    ELSE IF InRange32(e.type, <<8, 0>>, <<65535, 24575>>)
    THEN Ok([variant |-> "OsSpecific", raw |-> e.type])
    ELSE IF InRange32(e.type, <<0, 24576>>, <<65535, 65535>>)
    THEN Ok([variant |-> "ProcessorSpecific", raw |-> e.type])
    ELSE Panic("entered unreachable code")

\* section::HeaderEntry accessors
sh_name_index(e) == e.name_index
sh_address(e) == AsU64(e, e.address)
sh_offset(e) == AsU64(e, e.offset)
sh_address_alignment(e) == AsU64(e, e.address_alignment)
sh_size(e) == AsU64(e, e.size)
sh_link(e) == e.link
sh_info(e) == e.info
sh_entry_size(e) == AsU64(e, e.entry_size)

\* HeaderEntry::flags: flags.get().into() / flags.get()
sh_flags(e) == AsU64(e, e.flags)

SectionEntryTypeNames ==
    <<"Null", "Progbits", "Symtab", "Strtab", "Rela", "Hash", "Dynamic",
      "Note", "NoBits", "Rel", "Shlib", "DynSym", "unassigned", "unassigned",
      "InitArray", "FiniArray", "PreinitArray", "Group", "SymtabIndex">>

SectionEntryTypeTryFrom_UserRangeRejected(value) ==
    IF value[2] = 0 /\ value[1] \in (0..11) \cup (14..18)
    THEN Ok([variant |-> SectionEntryTypeNames[value[1] + 1]])
    ELSE IF InRange32(value, <<0, 24576>>, <<65535, 28671>>)
    THEN Ok([variant |-> "OsSpecific", raw |-> value])
    ELSE IF InRange32(value, <<0, 28672>>, <<65535, 32767>>)
    THEN Ok([variant |-> "ProcessorSpecific", raw |-> value])
    ELSE [tag |-> "Err", reason |-> "InvalidValue", value |-> Widen(value)]

\* impl TryFrom<Word> for SectionEntryType
SectionEntryTypeTryFrom(value) ==
    IF value[2] = 0 /\ value[1] \in (0..11) \cup (14..18)
    THEN Ok([variant |-> SectionEntryTypeNames[value[1] + 1]])
    ELSE IF InRange32(value, <<0, 24576>>, <<65535, 28671>>)
    THEN Ok([variant |-> "OsSpecific", raw |-> value])
    ELSE IF InRange32(value, <<0, 28672>>, <<65535, 32767>>)
    THEN Ok([variant |-> "ProcessorSpecific", raw |-> value])
    ELSE IF InRange32(value, <<0, 32768>>, <<65535, 65535>>)
    THEN Ok([variant |-> "UserSpecific", raw |-> value])
    ELSE [tag |-> "Err", reason |-> "InvalidValue", value |-> Widen(value)]

\* section::HeaderEntry::r#type: try_into().unwrap()
sh_type(e) ==
    LET t == SectionEntryTypeTryFrom(e.type) IN
    IF IsOk(t) THEN t
    ELSE Panic("called unwrap on an Err value")

\* HeaderEntry::try_to_entry on the bytes [from, to) of the buffer
try_to_entry(e, from, to) ==
    LET t == sh_type(e) IN
    IF IsPanic(t) THEN t
    ELSE IF t.val.variant = "Strtab"
    THEN Ok([section |-> "StringTable", from |-> from, to |-> to])
    ELSE Panic("not yet implemented")

(***************************************************************************)
(* File::get_segment and File::get_section_by_index,                       *)
(* src/common/src/elf/mod.rs                                               *)
(***************************************************************************)
\* a + b on usize: a panic when the build checks overflow, else wrapped
AddUsize(a, b, bld) ==
    LET s == Add64(a, b)
        overflowed == IF bld.usize_bits = 32
                      THEN s.overflow \/ s.sum[3] # 0 \/ s.sum[4] # 0
                      ELSE s.overflow
    IN IF overflowed /\ bld.overflow_checks
       THEN Panic("attempt to add with overflow")
       ELSE Ok(AsUsize(s.sum, bld.usize_bits))

\* <[u8]>::get(from..to) on a slice of len bytes, as the range it borrows
GetRange(len, from, to) ==
    IF Lt64(to, from) \/ Lt64(U64Of(len), to) THEN None
    ELSE Some([from |-> NatOf(from), to |-> NatOf(to)])

\* File::get_segment:
\*   bytes.get(offset as usize..(offset + segment_size_on_file) as usize)
get_segment(f, e, bld) ==
    LET end == Add64(ph_offset(e), ph_segment_size_on_file(e)) IN
    IF end.overflow /\ bld.overflow_checks
    THEN Panic("attempt to add with overflow")
    ELSE GetRange(f.len, AsUsize(ph_offset(e), bld.usize_bits),
                  AsUsize(end.sum, bld.usize_bits))

\* File::get_section_by_index; entries are the entries of the section
\* table, which starts where the header says
get_section_by_index(f, entries, index, bld) ==
    LET h == f.header IN
    IF index >= h.section_header_entries THEN None
    ELSE
    LET start == AddUsize(AsUsize(h.section_header_offset, bld.usize_bits),
                          U64Of(index * h.section_header_entry_size), bld)
    IN
    IF IsPanic(start) THEN start
    ELSE IF Lt64(U64Of(f.len), start.val) THEN None
    ELSE
    LET made == SectionHeaderEntryTryFromBytes(
                    f.len - NatOf(start.val), entries[index + 1], h.class,
                    <<"SectionHeaderEntry", index>>)
    IN
    IF ~IsOk(made) THEN Some(made)
    ELSE
    LET offset == AsUsize(sh_offset(made.val), bld.usize_bits)
        end == AddUsize(offset, AsUsize(sh_size(made.val), bld.usize_bits), bld)
    IN
    IF IsPanic(end) THEN end
    ELSE
    LET range == GetRange(f.len, offset, end.val) IN
    IF range = None THEN None
    ELSE
    LET made_section == try_to_entry(made.val, range.val.from, range.val.to) IN
    IF IsPanic(made_section) THEN made_section ELSE Some(made_section)


(***************************************************************************)
(* File: one buffer whose tables hold full entries, File::try_from, then   *)
(* calls of get_segment and get_section_by_index                           *)
(***************************************************************************)
\* bytes of section data that follow the two tables
AccessData == 16

\* entries of the section table of an access buffer
AccessSections == 2

AccessLen(class) ==
    HEADER_SIZE(class) + PH_ENTRY_SIZE(class)
        + AccessSections * SH_ENTRY_SIZE(class) + AccessData

\* a u64 value as the field of a class-1 (u32) or class-2 (u64) entry
Field(class, v) == IF class = 1 THEN <<v[1], v[2]>> ELSE v

\* offsets an entry may name: inside the buffer, at its end, past it, near
\* the top of the field and, in class 2, above 4 GiB
AccessOffsets(class) ==
    {U64Of(0), U64Of(8), U64Of(AccessLen(class)), U64Of(AccessLen(class) + 1)}
        \cup (IF class = 1 THEN {<<65528, 65535, 0, 0>>}
              ELSE {<<8, 0, 1, 0>>, <<65528, 65535, 65535, 65535>>})

AccessSizes(class) ==
    {U64Of(0), U64Of(4), U64Of(AccessLen(class)), U64Of(AccessLen(class) + 1)}
        \cup (IF class = 1 THEN {<<65532, 65535, 0, 0>>}
              ELSE {<<4, 0, 1, 0>>, U64Of(16)})

ProgramAccessEntry(class, type, offset, size) ==
    [class |-> class,
     type |-> type,
     flags |-> <<5, 0>>,
     offset |-> Field(class, offset),
     virtual_address |-> Field(class, U64Of(4096)),
     physical_address |-> Field(class, U64Of(4096)),
     segment_size_on_file |-> Field(class, size),
     segment_size_in_memory |-> Field(class, size),
     alignment |-> Field(class, U64Of(4096))]

SectionAccessEntry(class, type, offset, size) ==
    [class |-> class,
     name_index |-> <<1, 0>>,
     type |-> type,
     flags |-> Field(class, U64Of(0)),
     address |-> Field(class, U64Of(0)),
     offset |-> Field(class, offset),
     size |-> Field(class, size),
     link |-> <<0, 0>>,
     info |-> <<0, 0>>,
     address_alignment |-> Field(class, U64Of(1)),
     entry_size |-> Field(class, U64Of(0))]

\* Load and Note
ProgramAccessTypes == {<<1, 0>>, <<4, 0>>}

\* Strtab, NoBits, Progbits and the unassigned 12
SectionAccessTypes == {<<3, 0>>, <<8, 0>>, <<1, 0>>, <<12, 0>>}

\* a well-formed buffer: header, one program entry, the section table
\* (a string table of the trailing data, then section_entry), the data
AccessBuffer(class, program_entry, section_entry) ==
    [ElfBuffer(class, "SectionHeader", "in_place", AccessSections, <<>>, 1,
               AccessSections * SH_ENTRY_SIZE(class) + AccessData)
        EXCEPT !.program_entries = <<program_entry>>,
               !.section_entries =
                   <<SectionAccessEntry(class, <<3, 0>>,
                                        U64Of(AccessLen(class) - AccessData),
                                        U64Of(AccessData)),
                     section_entry>>]

AccessInputs ==
    UNION {
        {AccessBuffer(class,
                      ProgramAccessEntry(class, type, offset, size),
                      SectionAccessEntry(class, <<3, 0>>, U64Of(0), U64Of(4))) :
            type \in ProgramAccessTypes,
            offset \in AccessOffsets(class), size \in AccessSizes(class)}
        \cup
        {AccessBuffer(class,
                      ProgramAccessEntry(class, <<1, 0>>, U64Of(0), U64Of(4)),
                      SectionAccessEntry(class, type, offset, size)) :
            type \in SectionAccessTypes,
            offset \in AccessOffsets(class), size \in AccessSizes(class)}
        : class \in {1, 2}}

InitAccess ==
    /\ build \in Builds
    /\ buf \in AccessInputs
    /\ file = NoResult
    /\ iter = NoIter
    /\ yielded = <<>>
    /\ fpc = "input"
    /\ AccessIdle
    /\ EddIdle
    /\ StrIdle
    /\ EntryIdle /\ FlagIdle /\ ChainIdle /\ AtaIdle

\* file.get_segment(&entry), for an entry of the program header table
GetSegment ==
    /\ fpc = "file"
    /\ IsOk(file)
    /\ \E k \in 1..Len(buf.program_entries) :
         LET made == ProgramHeaderEntryTryFromBytes(
                         PH_ENTRY_SIZE(buf.class), buf.program_entries[k],
                         buf.class,
                         <<"ProgramHeaderEntry", PH_ENTRY_SIZE(buf.class)>>)
         IN /\ IsOk(made)
            /\ program_header' = made.val
            /\ segment' = get_segment(file.val, made.val, build)
    /\ fpc' = IF IsPanic(segment') THEN "panicked" ELSE fpc
    /\ UNCHANGED <<build, buf, file, iter, yielded>>
    /\ UNCHANGED <<section_index, section>>
    /\ UNCHANGED <<eddVars, strVars>>
    /\ UNCHANGED <<entryVars, flagVars, chainVars, ataVars>>

\* file.get_section_by_index(index)
GetSectionByIndex ==
    /\ fpc = "file"
    /\ IsOk(file)
    /\ \E i \in 0..MaxEntries :
         /\ section_index' = i
         /\ section' = get_section_by_index(file.val, buf.section_entries, i,
                                            build)
    /\ fpc' = IF IsPanic(section') THEN "panicked" ELSE fpc
    /\ UNCHANGED <<build, buf, file, iter, yielded>>
    /\ UNCHANGED <<program_header, segment>>
    /\ UNCHANGED <<eddVars, strVars>>
    /\ UNCHANGED <<entryVars, flagVars, chainVars, ataVars>>

NextAccess ==
    \/ OpenFile
    \/ GetSegment
    \/ GetSectionByIndex

SpecAccess == InitAccess /\ [][NextAccess]_vars

(***************************************************************************)
(* Claims on File::get_segment and File::get_section_by_index              *)
(***************************************************************************)
\* offset + size <= len in exact 64-bit arithmetic
RangeFits(offset, size, len) ==
    LET end == Add64(offset, size) IN
    ~end.overflow /\ ~Lt64(U64Of(len), end.sum)

\* C21: get_segment returns Some(s) only for a Load entry whose
\* [offset, offset + on_file_size) lies inside the buffer in exact 64-bit
\* arithmetic, and then s is exactly that range; it never panics.
C21_SegmentOnlyForLoadInRange ==
    segment # NoResult =>
        /\ ~IsPanic(segment)
        /\ segment # None =>
             /\ program_header.type = <<1, 0>>
             /\ RangeFits(ph_offset(program_header),
                          ph_segment_size_on_file(program_header),
                          file.val.len)
             /\ U64Of(segment.val.from) = ph_offset(program_header)
             /\ U64Of(segment.val.to) =
                    Add64(ph_offset(program_header),
                          ph_segment_size_on_file(program_header)).sum

\* C22: get_section_by_index(i) is None when i is not below the entry
\* count; Some(Err) for an entry of invalid type; Some(Ok(StringTable))
\* of exactly [offset, offset + size) for a Strtab entry whose range lies
\* inside the buffer; and a loud failure for every other valid kind.
C22_SectionByIndex ==
    section # NoResult =>
        IF section_index >= file.val.header.section_header_entries
        THEN section = None
        ELSE LET e == buf.section_entries[section_index + 1]
                 t == SectionEntryTypeTryFrom(e.type)
             IN
             IF ~IsOk(t) THEN section.tag = "Some" /\ IsErr(section.val)
             ELSE IF t.val.variant = "Strtab"
             THEN RangeFits(sh_offset(e), sh_size(e), file.val.len) =>
                     section = Some(Ok([section |-> "StringTable",
                                        from |-> NatOf(sh_offset(e)),
                                        to |-> NatOf(sh_offset(e))
                                                 + NatOf(sh_size(e))]))
             ELSE IsPanic(section)


(***************************************************************************)
(* Flag sets, src/bootloader/src/macros.rs (make_flags!) and               *)
(* src/common/src/macros.rs (make_bitmap!).  A flag set is named by its    *)
(* new_type; an enumerant is named by what its Display writes              *)
(***************************************************************************)
FlagSetNames ==
    {"InfoFlags", "HeadRegisterUpperNibble", "HWSpecificOptionFlags",
     "Permissions", "Flags"}

\* <$flag_unsigned_type>::BITS of the repr
FlagBits(type) ==
    CASE type = "InfoFlags" -> 16
      [] type = "HeadRegisterUpperNibble" -> 8
      [] type = "HWSpecificOptionFlags" -> 16
      [] type = "Permissions" -> 8
      [] type = "Flags" -> 64

\* the bit_skipper closure of each make_flags! invocation
bit_skipper(type, i) ==
    CASE type = "InfoFlags" -> i > 6
      [] type = "HeadRegisterUpperNibble" -> i # 4 /\ i # 6
      [] type = "HWSpecificOptionFlags" -> i > 10
      [] type = "Permissions" -> i > 2
      [] type = "Flags" -> i = 3 \/ i > 6

\* the underlying_flag_type enums: bit index of each enumerant |-> its name
InfoFlagType ==
    (0 :> "DMA_BOUNDARY_ERRORS_HANDLED_TRANSPARENTLY")
        @@ (1 :> "SUPPLIED_GEOMETRY_VALID") @@ (2 :> "REMOVABLE")
        @@ (3 :> "SUPPORTS_WRITE_WITH_VERIFY") @@ (4 :> "SUPPORTS_LINE_CHANGE")
        @@ (5 :> "LOCKABLE") @@ (6 :> "NO_MEDIA_PRESENT")

HeadRegisterFlagType == (4 :> "SLAVE") @@ (6 :> "LBA_ENABLED")

HWSpecificOptionFlagType ==
    (0 :> "FAST_PIO") @@ (1 :> "FAST_DMA") @@ (2 :> "BLOCK_PIO")
        @@ (3 :> "CHS_TRANSLATION") @@ (4 :> "LBA_TRANSLATION")
        @@ (5 :> "REMOVABLE_MEDIA") @@ (6 :> "ATAPI")
        @@ (7 :> "32_BIT_TRANSFER_MODE") @@ (8 :> "ATAPI_USES_INTERRUPT_DRQ")
        @@ (9 :> "TRANSLATION_TYPE_FIRST_BIT")
        @@ (10 :> "TRANSLATION_TYPE_SECOND_BIT")

PermissionFlag == (0 :> "EXECUTABLE") @@ (1 :> "WRITABLE") @@ (2 :> "READABLE")

FlagType ==
    (0 :> "WRITEABLE") @@ (1 :> "ALLOCATED") @@ (2 :> "EXECUTABLE_INSTRUCTIONS")
        @@ (4 :> "MERGE") @@ (5 :> "STRINGS") @@ (6 :> "INFO_LINK")
        @@ (7 :> "LINK_ORDER") @@ (8 :> "OS_NONCONFORMING") @@ (9 :> "IN_GROUP")
        @@ (10 :> "TLS")

Enumerants(type) ==
    CASE type = "InfoFlags" -> InfoFlagType
      [] type = "HeadRegisterUpperNibble" -> HeadRegisterFlagType
      [] type = "HWSpecificOptionFlags" -> HWSpecificOptionFlagType
      [] type = "Permissions" -> PermissionFlag
      [] type = "Flags" -> FlagType

\* <$flag_type>::try_from(1 << i) (TryFromPrimitive)
FlagTryFrom(type, i) ==
    IF i \in DOMAIN Enumerants(type) THEN Ok(i)
    ELSE [tag |-> "Err", reason |-> "TryFromPrimitiveError", value |-> i]

RECURSIVE make_flags_fmt(_, _, _, _)
\* the loop of make_flags!'s Display::fmt from bit i on; f is what has
\* been written so far
make_flags_fmt(type, value, i, f) ==
    IF i >= FlagBits(type) THEN Ok(f)
    ELSE IF bit_skipper(type, i) THEN make_flags_fmt(type, value, i + 1, f)
    ELSE
    LET flag == FlagTryFrom(type, i) IN
    IF ~IsOk(flag) THEN Panic("called unwrap on an Err value")
    ELSE IF is_set(value, 2 ^ flag.val)
    THEN make_flags_fmt(type, value, i + 1,
             (IF i > 1 THEN Append(f, "|") ELSE f)
                 \o <<Enumerants(type)[flag.val]>>)
    ELSE make_flags_fmt(type, value, i + 1, f)

RECURSIVE make_bitmap_fmt(_, _, _, _, _)
\* the loop of make_bitmap!'s Display::fmt
make_bitmap_fmt(type, value, i, f, printed_once) ==
    IF i >= FlagBits(type) THEN Ok(f)
    ELSE IF bit_skipper(type, i)
    THEN make_bitmap_fmt(type, value, i + 1, f, printed_once)
    ELSE
    LET flag == FlagTryFrom(type, i) IN
    IF ~IsOk(flag) THEN Panic("called unwrap on an Err value")
    ELSE IF is_set(value, 2 ^ flag.val)
    THEN make_bitmap_fmt(type, value, i + 1,
             (IF printed_once THEN Append(f, "|") ELSE f)
                 \o <<Enumerants(type)[flag.val]>>, TRUE)
    ELSE make_bitmap_fmt(type, value, i + 1, f, printed_once)

(***************************************************************************)
(* Flags: one value of one flag set, rendered by either macro's Display    *)
(***************************************************************************)
\* values of a set: every combination of the bits up to one bit past its
\* highest enumerant
FlagValues(type) ==
    CASE type = "InfoFlags" -> 0..255
      [] type = "HeadRegisterUpperNibble" -> 0..255
      [] type = "HWSpecificOptionFlags" -> 0..4095
      [] type = "Permissions" -> 0..15
      [] type = "Flags" -> 0..4095

InitFlags ==
    /\ flag_type \in FlagSetNames
    /\ flag_bits \in FlagValues(flag_type)
    /\ rendered = NoResult
    /\ EddIdle /\ ElfIdle /\ StrIdle
    /\ AccessIdle /\ EntryIdle /\ ChainIdle /\ AtaIdle

Rendered(macro, result) ==
    /\ rendered = NoResult
    /\ rendered' = [macro |-> macro, result |-> result]
    /\ UNCHANGED <<flag_type, flag_bits>>
    /\ UNCHANGED <<eddVars, elfVars, strVars>>
    /\ UNCHANGED <<accessVars, entryVars, chainVars, ataVars>>

\* format!("{}", flags) with the Display of make_flags!
DisplayMakeFlags ==
    Rendered("make_flags", make_flags_fmt(flag_type, flag_bits, 0, <<>>))

\* format!("{}", flags) with the Display of make_bitmap!
DisplayMakeBitmap ==
    Rendered("make_bitmap",
             make_bitmap_fmt(flag_type, flag_bits, 0, <<>>, FALSE))

NextFlags ==
    \/ DisplayMakeFlags
    \/ DisplayMakeBitmap

SpecFlags == InitFlags /\ [][NextFlags]_vars

(***************************************************************************)
(* Claims on the flag sets                                                 *)
(***************************************************************************)
\* the bit indices of the named, non-skipped flags that are set, ascending
RenderedBits ==
    {i \in DOMAIN Enumerants(flag_type) :
        ~bit_skipper(flag_type, i) /\ (flag_bits \div (2 ^ i)) % 2 = 1}

RECURSIVE JoinNames(_, _)
\* the names of the bits of S at or above i, ascending, joined by "|"
JoinNames(S, i) ==
    IF \A k \in S : k < i THEN <<>>
    ELSE IF i \notin S THEN JoinNames(S, i + 1)
    ELSE LET rest == JoinNames(S, i + 1) IN
         IF rest = <<>> THEN <<Enumerants(flag_type)[i]>>
         ELSE <<Enumerants(flag_type)[i], "|">> \o rest

\* C23: Display writes the names of the set, non-skipped flags in ascending
\* bit order with one "|" between two names, none before the first and
\* none after the last.
C23_NamesJoinedByBar ==
    rendered # NoResult =>
        rendered.result = Ok(JoinNames(RenderedBits, 0))

\* C24: the skip predicate excludes exactly the bit positions without a
\* named enumerant: rendering never panics, and every named flag that is
\* set is written.
C24_SkipExactlyUnnamedBits ==
    flag_type # "none" =>
        /\ \A i \in 0..(FlagBits(flag_type) - 1) :
              ~bit_skipper(flag_type, i) <=> i \in DOMAIN Enumerants(flag_type)
        /\ rendered # NoResult =>
              /\ ~IsPanic(rendered.result)
              /\ \A i \in DOMAIN Enumerants(flag_type) :
                    (flag_bits \div (2 ^ i)) % 2 = 1 =>
                        \E k \in 1..Len(rendered.result.val) :
                            rendered.result.val[k] = Enumerants(flag_type)[i]


(***************************************************************************)
(* Entries at the byte level: HeaderEntry::try_from_bytes on a slice, then *)
(* the accessors of the entry it made                                      *)
(***************************************************************************)
\* program_header::HeaderEntry::try_from_bytes on the slice s
program_header_try_from_bytes(s, class, facility) ==
    IF Len(s) < PH_ENTRY_SIZE(class) THEN SizeError(facility, Len(s))
    ELSE ProgramHeaderEntryTryFromBytes(Len(s), ProgramHeaderEntryRead(s, class),
                                        class, facility)

\* section::HeaderEntry::try_from_bytes on the slice s
section_try_from_bytes(s, class, facility) ==
    IF Len(s) < SH_ENTRY_SIZE(class) THEN SizeError(facility, Len(s))
    ELSE SectionHeaderEntryTryFromBytes(Len(s), SectionHeaderEntryRead(s, class),
                                        class, facility)

\* what each accessor of a program header entry returns
ProgramHeaderAccessors(e) ==
    [type |-> ph_type(e),
     offset |-> ph_offset(e),
     virtual_address |-> ph_virtual_address(e),
     physical_address |-> ph_physical_address(e),
     segment_size_on_file |-> ph_segment_size_on_file(e),
     segment_size_in_memory |-> ph_segment_size_in_memory(e),
     on_file_size |-> ph_on_file_size(e),
     in_memory_size |-> ph_in_memory_size(e),
     address_alignment |-> ph_address_alignment(e),
     permissions |-> permissions(e)]

\* what each accessor of a section header entry returns
SectionHeaderAccessors(e) ==
    [name_index |-> sh_name_index(e),
     type |-> sh_type(e),
     address |-> sh_address(e),
     offset |-> sh_offset(e),
     address_alignment |-> sh_address_alignment(e),
     size |-> sh_size(e),
     link |-> sh_link(e),
     info |-> sh_info(e),
     entry_size |-> sh_entry_size(e),
     flags |-> sh_flags(e)]

\* the bytes of a U32<LE> and of a U64<LE>
Bytes32(v) == <<v[1] % 256, v[1] \div 256, v[2] % 256, v[2] \div 256>>
Bytes64(v) == Bytes32(<<v[1], v[2]>>) \o Bytes32(<<v[3], v[4]>>)

\* a field of 32 bits in class 1, of 64 bits in class 2
BytesOfField(class, v) == IF class = 1 THEN Bytes32(v) ELSE Bytes64(Widen(v))

\* the bytes of a program header entry with the 32-bit values f, in the
\* layout of the class
ProgramHeaderEntryBytes(class, f) ==
    IF class = 1
    THEN Bytes32(f.type) \o Bytes32(f.offset) \o Bytes32(f.virtual_address)
           \o Bytes32(f.physical_address) \o Bytes32(f.segment_size_on_file)
           \o Bytes32(f.segment_size_in_memory) \o Bytes32(f.flags)
           \o Bytes32(f.alignment)
    ELSE Bytes32(f.type) \o Bytes32(f.flags) \o Bytes64(Widen(f.offset))
           \o Bytes64(Widen(f.virtual_address))
           \o Bytes64(Widen(f.physical_address))
           \o Bytes64(Widen(f.segment_size_on_file))
           \o Bytes64(Widen(f.segment_size_in_memory))
           \o Bytes64(Widen(f.alignment))

\* the bytes of a section header entry with the 32-bit values f
SectionHeaderEntryBytes(class, f) ==
    Bytes32(f.name_index) \o Bytes32(f.type) \o BytesOfField(class, f.flags)
        \o BytesOfField(class, f.address) \o BytesOfField(class, f.offset)
        \o BytesOfField(class, f.size) \o Bytes32(f.link) \o Bytes32(f.info)
        \o BytesOfField(class, f.address_alignment)
        \o BytesOfField(class, f.entry_size)

\* values of the type field of a program header entry: the ends of the
\* ranges of ProgramHeaderEntryType
ProgramTypeInputs ==
    {<<0, 0>>, <<1, 0>>, <<7, 0>>, <<8, 0>>, <<65535, 24575>>, <<0, 24576>>,
     <<58705, 25716>>, <<65535, 65535>>}

\* values of the flags word: inside the three permission bits and outside
ProgramFlagInputs ==
    {<<0, 0>>, <<5, 0>>, <<7, 0>>, <<8, 0>>, <<261, 0>>, <<4, 32768>>}

\* the other fields: values near those of PT_LOAD_HEADER_32_BIT, and
\* values with the top bit set that differ from field to field
ProgramFieldInputs ==
    {[type |-> t, flags |-> fl,
      offset |-> IF high THEN <<65281, 65535>> ELSE <<4096, 0>>,
      virtual_address |-> IF high THEN <<65282, 65535>> ELSE <<0, 1>>,
      physical_address |-> IF high THEN <<65283, 65535>> ELSE <<0, 2>>,
      segment_size_on_file |-> IF high THEN <<65284, 65535>> ELSE <<32093, 0>>,
      segment_size_in_memory |-> IF high THEN <<65285, 32768>> ELSE <<32094, 0>>,
      alignment |-> IF high THEN <<65286, 65535>> ELSE <<4097, 0>>] :
        t \in ProgramTypeInputs, fl \in ProgramFlagInputs, high \in BOOLEAN}

\* values of the type field of a section header entry: the ends of the
\* ranges of SectionEntryType and of the gaps between them
SectionTypeInputs ==
    {<<0, 0>>, <<3, 0>>, <<11, 0>>, <<12, 0>>, <<13, 0>>, <<14, 0>>, <<18, 0>>,
     <<19, 0>>, <<65535, 24575>>, <<0, 24576>>, <<65535, 28671>>, <<0, 28672>>,
     <<65535, 32767>>, <<0, 32768>>, <<65535, 65535>>}

SectionFlagInputs == {<<0, 0>>, <<6, 0>>, <<128, 0>>, <<65527, 65535>>}

SectionFieldInputs ==
    {[name_index |-> IF high THEN <<65281, 65535>> ELSE <<27, 0>>,
      type |-> t, flags |-> fl,
      address |-> IF high THEN <<65282, 65535>> ELSE <<0, 1>>,
      offset |-> IF high THEN <<65283, 65535>> ELSE <<4096, 0>>,
      size |-> IF high THEN <<65284, 32768>> ELSE <<512, 0>>,
      link |-> IF high THEN <<65285, 65535>> ELSE <<2, 0>>,
      info |-> IF high THEN <<65286, 65535>> ELSE <<3, 0>>,
      address_alignment |-> IF high THEN <<65287, 65535>> ELSE <<16, 0>>,
      entry_size |-> IF high THEN <<65288, 65535>> ELSE <<24, 0>>] :
        t \in SectionTypeInputs, fl \in SectionFlagInputs, high \in BOOLEAN}

EntryFieldInputs(kind) ==
    IF kind = "ProgramHeader" THEN ProgramFieldInputs ELSE SectionFieldInputs

EntryBytes(kind, class, f) ==
    IF kind = "ProgramHeader" THEN ProgramHeaderEntryBytes(class, f)
    ELSE SectionHeaderEntryBytes(class, f)

\* slices handed to try_from_bytes: an entry, an entry followed by more
\* bytes of the table, and an entry cut short by one byte
EntrySlices(kind, class) ==
    {EntryBytes(kind, class, f) : f \in EntryFieldInputs(kind)}
        \cup {EntryBytes(kind, class, f) \o <<1, 0, 0, 0>> :
                 f \in {g \in EntryFieldInputs(kind) :
                           g.flags = <<0, 0>> /\ g.type[2] = 0}}
        \cup {SubSeq(EntryBytes(kind, class, f), 1,
                     EntrySize(kind, class) - 1) :
                 f \in {g \in EntryFieldInputs(kind) :
                           g.flags = <<0, 0>> /\ g.type = <<1, 0>>}}

InitEntry ==
    /\ entry_kind \in Tables
    /\ entry_class \in {1, 2}
    /\ entry_bytes \in EntrySlices(entry_kind, entry_class)
    /\ header_entry = NoResult
    /\ accessed = NoResult
    /\ EddIdle /\ ElfIdle /\ StrIdle
    /\ AccessIdle /\ FlagIdle /\ ChainIdle /\ AtaIdle

EntryDecoded(made) ==
    /\ header_entry = NoResult
    /\ header_entry' = made
    /\ UNCHANGED <<entry_kind, entry_class, entry_bytes, accessed>>
    /\ UNCHANGED <<eddVars, elfVars, strVars>>
    /\ UNCHANGED <<accessVars, flagVars, chainVars, ataVars>>

\* program_header::HeaderEntry::try_from_bytes(bytes, class, facility)
ProgramHeaderEntryDecode ==
    /\ entry_kind = "ProgramHeader"
    /\ EntryDecoded(program_header_try_from_bytes(entry_bytes, entry_class,
                                                  "ProgramHeader"))

\* section::HeaderEntry::try_from_bytes(bytes, class, facility)
SectionHeaderEntryDecode ==
    /\ entry_kind = "SectionHeader"
    /\ EntryDecoded(section_try_from_bytes(entry_bytes, entry_class,
                                           "SectionHeader"))

\* the caller reads every accessor of the entry it got
EntryAccessed(kind, values) ==
    /\ entry_kind = kind
    /\ IsOk(header_entry)
    /\ accessed = NoResult
    /\ accessed' = values
    /\ UNCHANGED <<entry_kind, entry_class, entry_bytes, header_entry>>
    /\ UNCHANGED <<eddVars, elfVars, strVars>>
    /\ UNCHANGED <<accessVars, flagVars, chainVars, ataVars>>

ProgramHeaderEntryAccess ==
    /\ IsOk(header_entry)
    /\ EntryAccessed("ProgramHeader", ProgramHeaderAccessors(header_entry.val))

SectionHeaderEntryAccess ==
    /\ IsOk(header_entry)
    /\ EntryAccessed("SectionHeader", SectionHeaderAccessors(header_entry.val))

NextEntry ==
    \/ ProgramHeaderEntryDecode
    \/ SectionHeaderEntryDecode
    \/ ProgramHeaderEntryAccess
    \/ SectionHeaderEntryAccess

SpecEntry == InitEntry /\ [][NextEntry]_vars


(***************************************************************************)
(* Claims on the table entries                                             *)
(***************************************************************************)
\* the 32-bit field values the slice in hand was laid out from
HasFields ==
    \E f \in EntryFieldInputs(entry_kind) :
        StartsWith(entry_bytes, EntryBytes(entry_kind, entry_class, f))

EntryFields ==
    CHOOSE f \in EntryFieldInputs(entry_kind) :
        StartsWith(entry_bytes, EntryBytes(entry_kind, entry_class, f))

\* 12, 13 and 19..0x5FFFFFFF
SectionTypeGap(v) ==
    v = <<12, 0>> \/ v = <<13, 0>> \/ InRange32(v, <<19, 0>>, <<65535, 24575>>)

\* C25: a section entry type is an error exactly for the gap values 12, 13
\* and 19..0x5FFFFFFF; the values of 0x60000000..0x6FFFFFFF,
\* 0x70000000..0x7FFFFFFF and 0x80000000..0xFFFFFFFF decode to OsSpecific,
\* ProcessorSpecific and UserSpecific carrying the raw value; r#type() of
\* an accepted entry does not panic.
C25_SectionTypeErrorExactlyInGaps ==
    entry_kind = "SectionHeader" /\ header_entry # NoResult /\ HasFields =>
        LET v == EntryFields.type IN
        /\ IsFieldError(header_entry, "type") <=> SectionTypeGap(v)
        /\ ~SectionTypeGap(v) => IsOk(header_entry)
        /\ accessed # NoResult =>
             /\ ~IsPanic(accessed.type)
             /\ InRange32(v, <<0, 24576>>, <<65535, 28671>>) =>
                   accessed.type = Ok([variant |-> "OsSpecific", raw |-> v])
             /\ InRange32(v, <<0, 28672>>, <<65535, 32767>>) =>
                   accessed.type = Ok([variant |-> "ProcessorSpecific", raw |-> v])
             /\ InRange32(v, <<0, 32768>>, <<65535, 65535>>) =>
                   accessed.type = Ok([variant |-> "UserSpecific", raw |-> v])

\* a section entry of type 0x80000000 was accepted and its type read
C25_Witness ==
    /\ entry_kind = "SectionHeader"
    /\ accessed # NoResult
    /\ accessed.type = Ok([variant |-> "UserSpecific", raw |-> <<0, 32768>>])

ZeroExtended(v) == <<v[1], v[2], 0, 0>>

\* the entry made from the same field values laid out in class 2
Class64Twin(f) ==
    IF entry_kind = "ProgramHeader"
    THEN program_header_try_from_bytes(ProgramHeaderEntryBytes(2, f), 2,
                                       "ProgramHeader")
    ELSE section_try_from_bytes(SectionHeaderEntryBytes(2, f), 2,
                                "SectionHeader")

\* C26: each accessor of a class-32 entry returns the zero-extension of
\* the 32-bit field, and the same as the accessor of the entry made from
\* the same field values in the class-64 layout.
C26_AccessorsZeroExtendAndAgree ==
    accessed # NoResult /\ entry_class = 1 /\ HasFields =>
        LET f == EntryFields
            twin == Class64Twin(f)
        IN
        /\ IsOk(twin)
        /\ IF entry_kind = "ProgramHeader"
           THEN /\ accessed.offset = ZeroExtended(f.offset)
                /\ accessed.virtual_address = ZeroExtended(f.virtual_address)
                /\ accessed.physical_address = ZeroExtended(f.physical_address)
                /\ accessed.segment_size_on_file =
                       ZeroExtended(f.segment_size_on_file)
                /\ accessed.on_file_size = ZeroExtended(f.segment_size_on_file)
                /\ accessed.segment_size_in_memory =
                       ZeroExtended(f.segment_size_in_memory)
                /\ accessed.in_memory_size =
                       ZeroExtended(f.segment_size_in_memory)
                /\ accessed.address_alignment = ZeroExtended(f.alignment)
                /\ ProgramHeaderAccessors(twin.val) = accessed
           ELSE /\ accessed.address = ZeroExtended(f.address)
                /\ accessed.offset = ZeroExtended(f.offset)
                /\ accessed.size = ZeroExtended(f.size)
                /\ accessed.address_alignment =
                       ZeroExtended(f.address_alignment)
                /\ accessed.entry_size = ZeroExtended(f.entry_size)
                /\ accessed.flags = ZeroExtended(f.flags)
                /\ SectionHeaderAccessors(twin.val) = accessed

\* a class-32 program entry whose offset has the top bit set was read
C26_Witness ==
    /\ entry_kind = "ProgramHeader"
    /\ entry_class = 1
    /\ accessed # NoResult
    /\ accessed.offset = <<65281, 65535, 0, 0>>

\* C30: try_from_bytes accepts a program header entry in the class-32
\* layout exactly when it accepts the same values in the class-64 layout,
\* and the flags word of an accepted entry lies within the three
\* permission bits, so that permissions() keeps every set bit.
C30_ValidationIndependentOfClass ==
    entry_kind = "ProgramHeader" /\ header_entry # NoResult /\ HasFields =>
        LET f == EntryFields
            other == 3 - entry_class
            twin == program_header_try_from_bytes(
                        ProgramHeaderEntryBytes(other, f), other,
                        "ProgramHeader")
        IN
        /\ IsOk(header_entry) <=> IsOk(twin)
        /\ IsOk(header_entry) =>
              /\ InRange32(header_entry.val.flags, <<0, 0>>, <<7, 0>>)
              /\ header_entry.val.flags = <<permissions(header_entry.val), 0>>


(***************************************************************************)
(* DriveParameters: the decoded fields against the bytes of the buffer     *)
(***************************************************************************)
\* the byte at offset i of the buffer handed to the decoder
BufferByte(i) == bytes[i + 1]

\* the little-endian 16-bit value at offset i of the buffer
BufferHalf(i) == BufferByte(i) + 256 * BufferByte(i + 1)

\* offsets in the buffer of interface_path and device_path: the device path
\* record follows the 30 bytes of the drive parameters, and the two paths
\* sit at offsets 18 and 26 of the record
InterfacePathAt == DP_SIZE + 18
DevicePathAt == DP_SIZE + 26

AcceptedDriveParameters ==
    /\ target = "DriveParameters"
    /\ epc = "decoded"
    /\ IsOk(res)

\* the decoded device path of an accepted buffer that carries one
HasDevicePath ==
    /\ AcceptedDriveParameters
    /\ res.val.device_path_information # NoResult

DevicePath == res.val.device_path_information.val

\* what the unit test expects of the two 66-byte fixtures
FixtureParameters(cylinders, heads, sectors_per_track, host_bus) ==
    [buffer_size |-> 30,
     information_flags |-> 2,
     cylinders |-> <<cylinders, 0>>,
     heads |-> <<heads, 0>>,
     sectors_per_track |-> <<sectors_per_track, 0>>,
     sectors |-> <<145, 0, 0, 0>>,
     bytes_per_sector |-> 512,
     fixed_disk_parameter_table |-> NoResult,
     device_path_information |->
        Ok([host_bus |-> host_bus,
            interface |-> [variant |-> "Ata", is_slave |-> FALSE]])]

\* C27: every buffer DriveParameters::try_from accepts decodes to the
\* little-endian values of the raw fields at offsets 0, 4, 8, 12, 16 and 24;
\* a PCI host bus has bus, slot and function equal to bytes 0, 1 and 2 of
\* interface_path, an ISA host bus has base_address equal to the low 16 bits
\* of interface_path, and an ATA interface has is_slave true exactly when
\* byte 0 of device_path is 1; the two fixtures decode to what the unit test
\* states
C27_DriveParametersFieldsFromBytes ==
    /\ AcceptedDriveParameters =>
          /\ res.val.buffer_size = BufferHalf(0)
          /\ res.val.cylinders = <<BufferHalf(4), BufferHalf(6)>>
          /\ res.val.heads = <<BufferHalf(8), BufferHalf(10)>>
          /\ res.val.sectors_per_track = <<BufferHalf(12), BufferHalf(14)>>
          /\ res.val.sectors = <<BufferHalf(16), BufferHalf(18),
                                 BufferHalf(20), BufferHalf(22)>>
          /\ res.val.bytes_per_sector = BufferHalf(24)
    /\ HasDevicePath =>
          /\ DevicePath.host_bus.variant = "Pci" =>
                /\ DevicePath.host_bus.bus = BufferByte(InterfacePathAt)
                /\ DevicePath.host_bus.slot = BufferByte(InterfacePathAt + 1)
                /\ DevicePath.host_bus.function = BufferByte(InterfacePathAt + 2)
          /\ DevicePath.host_bus.variant = "Isa" =>
                DevicePath.host_bus.base_address = BufferHalf(InterfacePathAt)
          /\ DevicePath.interface.variant = "Ata" =>
                (DevicePath.interface.is_slave <=> BufferByte(DevicePathAt) = 1)
    /\ (target = "DriveParameters" /\ epc = "decoded"
        /\ bytes = QEMU_DRIVE_PARAMETERS_BYTES) =>
          res = Ok(FixtureParameters(2, 16, 63,
                     [variant |-> "Pci", bus |-> 0, slot |-> 1, function |-> 1]))
    /\ (target = "DriveParameters" /\ epc = "decoded"
        /\ bytes = BOCHS_DRIVE_PARAMETERS_BYTES) =>
          res = Ok(FixtureParameters(1, 1, 18,
                     [variant |-> "Isa", base_address |-> 496]))

\* an accepted 66-byte buffer with an ISA host bus at 0x1F0 and an ATA
\* interface, and a geometry field that is not the fixture's
C27_Witness ==
    /\ HasDevicePath
    /\ DevicePath.host_bus.variant = "Isa"
    /\ DevicePath.host_bus.base_address = 496
    /\ DevicePath.interface.variant = "Ata"
    /\ res.val.information_flags = 0
    /\ res.val.cylinders = <<0, 0>>


(***************************************************************************)
(* ErrorChain and the global chain, src/common/src/error.rs:199-289        *)
(***************************************************************************)
MAX_ERROR_CHAIN_LENGTH == 5

\* Error::new and Error::blank
ErrorNew(fault, context, facility) ==
    [fault |-> fault, context |-> context, facility |-> facility]

blank == ErrorNew("None", "None", "None")

\* the initial value of the static
GLOBAL_ERROR_CHAIN ==
    [errors |-> [k \in 1..MAX_ERROR_CHAIN_LENGTH |-> blank],
     length |-> 0,
     theres_more |-> FALSE]

\* a push that stores the error in the last slot of a full chain
push_OverwritesLast(self, error) ==
    IF self.length = MAX_ERROR_CHAIN_LENGTH
    THEN [self EXCEPT !.theres_more = TRUE,
                      !.errors[MAX_ERROR_CHAIN_LENGTH] = error]
    ELSE [self EXCEPT !.errors[self.length + 1] = error,
                      !.length = self.length + 1]

\* ErrorChain::push; errors[self.length] is slot self.length + 1 here
push(self, error) ==
    IF self.length = MAX_ERROR_CHAIN_LENGTH
    THEN [self EXCEPT !.theres_more = TRUE]
    ELSE [self EXCEPT !.errors[self.length + 1] = error,
                      !.length = self.length + 1]

\* ErrorChain::clear; the array keeps what it held
clear(self) == [self EXCEPT !.length = 0, !.theres_more = FALSE]

\* the errors the boot path pushes: what a failed step reports, the
\* wrapper the kernel loader puts around it and the one main adds
ErrorInputs ==
    {ErrorNew("IOError", "ReadingKernelFromDisk", "Bootloader"),
     ErrorNew("InvalidElf", "ReadingKernelFromDisk", "Bootloader"),
     ErrorNew("KernelInitialization", "PreparingForJumpToKernel", "Bootloader")}

\* pushes followed between two clears
MaxPushed == 7

InitChain ==
    /\ error_chain = GLOBAL_ERROR_CHAIN
    /\ pushed = <<>>
    /\ EddIdle /\ ElfIdle /\ StrIdle
    /\ AccessIdle /\ EntryIdle /\ FlagIdle /\ AtaIdle

\* push_to_global_error_chain_no_sync
PushToGlobalErrorChain ==
    /\ error_chain # NoResult
    /\ Len(pushed) < MaxPushed
    /\ \E error \in ErrorInputs :
          /\ error_chain' = push(error_chain, error)
          /\ pushed' = Append(pushed, error)
    /\ UNCHANGED <<eddVars, elfVars, strVars>>
    /\ UNCHANGED <<accessVars, entryVars, flagVars, ataVars>>

\* clear_global_error_chain_no_sync
ClearGlobalErrorChain ==
    /\ error_chain # NoResult
    /\ error_chain' = clear(error_chain)
    /\ pushed' = <<>>
    /\ UNCHANGED <<eddVars, elfVars, strVars>>
    /\ UNCHANGED <<accessVars, entryVars, flagVars, ataVars>>

NextChain == PushToGlobalErrorChain \/ ClearGlobalErrorChain

SpecChain == InitChain /\ [][NextChain]_vars

\* the chain holds the first errors pushed since the last clear, in order
ChainHoldsFirstPushed ==
    error_chain # NoResult =>
        /\ error_chain.length <= MAX_ERROR_CHAIN_LENGTH
        /\ error_chain.length =
              (IF Len(pushed) < MAX_ERROR_CHAIN_LENGTH
               THEN Len(pushed) ELSE MAX_ERROR_CHAIN_LENGTH)
        /\ \A k \in 1..error_chain.length : error_chain.errors[k] = pushed[k]
        /\ error_chain.theres_more <=> Len(pushed) > MAX_ERROR_CHAIN_LENGTH

\* a push on a full chain changes nothing but theres_more, and a clear
\* leaves length 0 and theres_more false
ChainStep ==
    /\ (Len(pushed') = Len(pushed) + 1
        /\ error_chain.length = MAX_ERROR_CHAIN_LENGTH) =>
          /\ error_chain'.errors = error_chain.errors
          /\ error_chain'.length = error_chain.length
          /\ error_chain'.theres_more
    /\ (pushed # <<>> /\ pushed' = <<>>) =>
          /\ error_chain'.length = 0
          /\ ~error_chain'.theres_more

\* C28: after any sequence of push and clear the length is at most N, the
\* stored errors are the first min(k, N) of the k errors pushed since the
\* last clear in push order, theres_more is true exactly when k > N, a push
\* on a full chain changes nothing but theres_more, and clear resets length
\* to 0 and theres_more to false
C28_ChainKeepsFirstErrors == []ChainHoldsFirstPushed /\ [][ChainStep]_vars

\* a full chain that was pushed to again with an error other than its last
C28_Witness ==
    /\ error_chain # NoResult
    /\ error_chain.length = MAX_ERROR_CHAIN_LENGTH
    /\ error_chain.theres_more
    /\ Len(pushed) > MAX_ERROR_CHAIN_LENGTH
    /\ pushed[MAX_ERROR_CHAIN_LENGTH + 1] # pushed[MAX_ERROR_CHAIN_LENGTH]
    /\ error_chain.errors[1] = pushed[1]


(***************************************************************************)
(* ATA PIO reads, src/common/src/ata.rs:186-357                            *)
(***************************************************************************)
COMMAND_ReadSectors == 32

STATUS_ReadyForSendReceive == 8
STATUS_Spinning == 64
STATUS_BusyPreparingToSendReceive == 128

\* the primary channel the fixtures describe: the port bases of the fixed
\* disk parameter table, the sectors and sector size of the drive parameters
AtaDevice ==
    [io_port_base_address |-> LE16(QEMU_FDPT_BYTES, 0),
     control_port_base_address |-> LE16(QEMU_FDPT_BYTES, 2),
     is_slave |-> FALSE,
     sectors |-> LE16(QEMU_DRIVE_PARAMETERS_BYTES, 16),
     sector_size_bytes |-> LE16(QEMU_DRIVE_PARAMETERS_BYTES, 24)]

sector_count_register(self) == self.io_port_base_address + 2
lba_low_register(self) == self.io_port_base_address + 3
lba_mid_register(self) == self.io_port_base_address + 4
lba_high_register(self) == self.io_port_base_address + 5
drive_head_register(self) == self.io_port_base_address + 6
command_register(self) == self.io_port_base_address + 7

\* Device::io_error
io_error(self, kind, reason) ==
    Err("AtaDevice", kind, "none", reason, self.io_port_base_address)

\* StatusRegisterFlags::is_set
status_is_set(flags, flag) == BitAnd(flags, flag) # 0

\* Device::ready_for_command on the status byte get_status reads
ready_for_command(st) ==
    /\ status_is_set(st, STATUS_Spinning)
    /\ ~status_is_set(st, STATUS_BusyPreparingToSendReceive)

\* Device::has_data_to_send on the status byte get_status reads
has_data_to_send(st) ==
    /\ status_is_set(st, STATUS_ReadyForSendReceive)
    /\ ~status_is_set(st, STATUS_BusyPreparingToSendReceive)

\* ticks a timer of one millisecond starts with; the code's 1193 scaled down
TimeoutTicks == 3

\* the most ticks that pass between two updates of a timer
MaxElapsed == 2

\* LowPrecisionTimer::update: the first call subtracts nothing, the later
\* ones subtract the ticks that passed, and the count stops at zero
TimerUpdate(t, elapsed) == IF elapsed > t THEN 0 ELSE t - elapsed

\* DriveHeadRegisterFlags::new().lba(address) and the IsSlave flag
DriveHeadRegister(self, lba_address) ==
    224 + ((lba_address \div 16777216) % 16) + (IF self.is_slave THEN 16 ELSE 0)

PortWrite(port, value) == [port |-> port, value |-> value]

\* the five register writes that precede the command
SetupWrites(self, sector_count, lba_address) ==
    <<PortWrite(drive_head_register(self), DriveHeadRegister(self, lba_address)),
      PortWrite(sector_count_register(self), sector_count),
      PortWrite(lba_low_register(self), lba_address % 256),
      PortWrite(lba_mid_register(self), (lba_address \div 256) % 256),
      PortWrite(lba_high_register(self), (lba_address \div 65536) % 256)>>

\* values of the status register: idle, ready, busy, busy and ready, data
\* request with and without ready or busy, ready with seek complete
StatusInputs == {0, 64, 128, 192, 8, 72, 136, 80, 88}

SectorCountInputs == {0, 1, 2}
LbaInputs == {1, 144, 145}
BufferLenInputs == {512, 1024}

InitAta ==
    /\ ata_pc = "call"
    /\ status \in StatusInputs
    /\ ticks = 0
    /\ readiness = NoResult
    /\ port_writes = <<>>
    /\ sectors_left = 0
    /\ outcome = NoResult
    /\ EddIdle /\ ElfIdle /\ StrIdle
    /\ AccessIdle /\ EntryIdle /\ FlagIdle /\ ChainIdle

AtaFrame ==
    /\ UNCHANGED <<eddVars, elfVars, strVars>>
    /\ UNCHANGED <<accessVars, entryVars, flagVars, chainVars>>

\* read_sectors_lba28_pio up to the call of wait_for_readiness, whose
\* courtesy delay of 400 ns is a timer of zero ticks
ReadSectorsLba28Pio ==
    /\ ata_pc = "call"
    /\ \E sector_count \in SectorCountInputs, lba_address \in LbaInputs,
          buffer_len \in BufferLenInputs :
          IF lba_address >= AtaDevice.sectors THEN
              /\ outcome' = io_error(AtaDevice, "InvalidLBAAddress", "none")
              /\ ata_pc' = "returned"
              /\ UNCHANGED <<ticks, port_writes, sectors_left>>
          ELSE IF buffer_len < sector_count * AtaDevice.sector_size_bytes THEN
              /\ outcome' = io_error(AtaDevice, "CantReadIntoBuffer", "none")
              /\ ata_pc' = "returned"
              /\ UNCHANGED <<ticks, port_writes, sectors_left>>
          ELSE
              /\ port_writes' = SetupWrites(AtaDevice, sector_count, lba_address)
              /\ sectors_left' = sector_count
              /\ ticks' = TimeoutTicks
              /\ ata_pc' = "wait_loop"
              /\ UNCHANGED outcome
    /\ UNCHANGED <<status, readiness>>
    /\ AtaFrame

\* one test of a polling loop: while the device is not as awaited and the
\* timer has not run out the timer is updated, otherwise the loop is left
PollingLoop(awaited, check) ==
    /\ IF ~awaited /\ ticks # 0
       THEN /\ \E elapsed \in 0..MaxElapsed : ticks' = TimerUpdate(ticks, elapsed)
            /\ UNCHANGED ata_pc
       ELSE /\ ata_pc' = check
            /\ UNCHANGED ticks
    /\ UNCHANGED <<status, readiness, port_writes, sectors_left, outcome>>
    /\ AtaFrame

\* the while loop of wait_for_readiness
WaitForReadinessLoop ==
    /\ ata_pc = "wait_loop"
    /\ PollingLoop(ready_for_command(status), "wait_check")

\* the final test of wait_for_readiness, which reads the status again, and
\* the statement that follows the call: the result is dropped and the
\* command is written
WaitForReadinessReturns ==
    /\ ata_pc = "wait_check"
    /\ readiness' = IF ticks = 0 /\ ~ready_for_command(status)
                    THEN io_error(AtaDevice, "Timeout", "AtaDeviceNotReady")
                    ELSE Ok("unit")
    /\ port_writes' = Append(port_writes,
                             PortWrite(command_register(AtaDevice),
                                       COMMAND_ReadSectors))
    /\ IF sectors_left = 0
       THEN /\ outcome' = Ok("unit")
            /\ ata_pc' = "returned"
            /\ UNCHANGED ticks
       ELSE /\ ticks' = TimeoutTicks
            /\ ata_pc' = "poll_loop"
            /\ UNCHANGED outcome
    /\ UNCHANGED <<status, sectors_left>>
    /\ AtaFrame

\* the while loop of poll_for_reads
PollForReadsLoop ==
    /\ ata_pc = "poll_loop"
    /\ PollingLoop(has_data_to_send(status), "poll_check")

\* the final test of poll_for_reads and, when it passes, the transfer of
\* one sector
PollForReadsReturns ==
    /\ ata_pc = "poll_check"
    /\ IF ticks = 0 /\ ~has_data_to_send(status) THEN
          /\ outcome' = io_error(AtaDevice, "Timeout", "HangingAtaDevice")
          /\ ata_pc' = "returned"
          /\ UNCHANGED <<ticks, sectors_left>>
       ELSE IF sectors_left = 1 THEN
          /\ sectors_left' = 0
          /\ outcome' = Ok("unit")
          /\ ata_pc' = "returned"
          /\ UNCHANGED ticks
       ELSE
          /\ sectors_left' = sectors_left - 1
          /\ ticks' = TimeoutTicks
          /\ ata_pc' = "poll_loop"
          /\ UNCHANGED outcome
    /\ UNCHANGED <<status, readiness, port_writes>>
    /\ AtaFrame

\* the device changes its status register while the driver polls
DeviceChangesStatus ==
    /\ ata_pc \in {"wait_loop", "wait_check", "poll_loop", "poll_check"}
    /\ status' \in StatusInputs \ {status}
    /\ UNCHANGED <<ata_pc, ticks, readiness, port_writes, sectors_left, outcome>>
    /\ AtaFrame

NextAta ==
    \/ ReadSectorsLba28Pio
    \/ WaitForReadinessLoop
    \/ WaitForReadinessReturns
    \/ PollForReadsLoop
    \/ PollForReadsReturns
    \/ DeviceChangesStatus

SpecAta == InitAta /\ [][NextAta]_vars

CommandWritten ==
    \E k \in DOMAIN port_writes :
        port_writes[k] = PortWrite(command_register(AtaDevice), COMMAND_ReadSectors)

\* C29: the ReadSectors command is written only after wait_for_readiness
\* has found the device ready; when the wait times out with the device not
\* ready the command is not written and the call returns the timeout error
C29_CommandOnlyWhenReady ==
    /\ CommandWritten => readiness = Ok("unit")
    /\ IsErr(readiness) =>
          /\ ~CommandWritten
          /\ ata_pc = "returned"
          /\ outcome = readiness

====
